---- MODULE Spec2Model ----
(***************************************************************************)
(* Pipeline hazard automaton generator (gcc/genautomata.c).                *)
(*                                                                         *)
(* The model follows expand_automata: the declaration checker, the regexp  *)
(* transformer, the alt-state builder, make_automaton, NDFA_to_DFA,        *)
(* minimize_DFA, enumerate_states, set_insn_equiv_classes, the            *)
(* transition / state-alternatives table encoder (add_vect), the maximal   *)
(* issue rate, the table of minimal issue delays and the table of the      *)
(* reserved query units.                                                   *)
(*                                                                         *)
(* Pointers to unit declarations are indices into units_array, pointers to *)
(* states are indices into the pool of allocated state nodes (index =      *)
(* unique_num + 1), a reservation bit string is the set of <<cycle, unit>> *)
(* pairs whose bit is set, and an intrusive list is a sequence.            *)
(*                                                                         *)
(* Spec runs the whole generator on small descriptions of one automaton.   *)
(* CheckerSpec runs the checker alone on descriptions which declare        *)
(* automata, TransformSpec runs the regexp transformer pass by pass, and   *)
(* TransTableSpec outputs the transition table of automata of some         *)
(* hundreds of states.                                                     *)
(***************************************************************************)
EXTENDS Integers, Sequences, FiniteSets, TLC

VARIABLES
  pc,                   \* position in expand_automata / create_automata
  description,          \* struct description: decls and the counters
  units_array,          \* unit_num + 1 -> struct unit_decl
  insn_decls,           \* insn_num + 1 -> struct insn_reserv_decl
  reserv_decls,         \* n-th define_reservation -> struct reserv_decl
  reported_cycles,      \* names in the "cycle in definition" errors
  have_error,
  ndfa_flag,
  w_flag,               \* -w: some errors are only warnings
  transformed_insns_num, \* insns whose regexp transform_insn_regexps has transformed
  regexp_transformed_p, \* the last pass of transform_regexp changed the regexp
  no_minimization_flag,
  max_cycles_num,
  states,               \* unique_num + 1 -> struct state
  free_states,          \* VLA of freed state nodes
  got_free_states,      \* the nodes given by get_free_state so far
  state_table,          \* set of interned state nodes
  ainsn_list,           \* automaton->ainsn_list
  start_state,          \* automaton->start_state
  state_stack,          \* work stack of make_automaton / NDFA_to_DFA
  reservs_matter,
  tried,                \* transition attempts of make_automaton so far
  ndfa_arcs,            \* out arcs of every state when make_automaton ended
  dfa_start,            \* start state and out arcs when NDFA_to_DFA ended
  dfa_arcs,
  equiv_classes,        \* minimizer: current partition
  next_iteration_classes,
  new_equiv_class_num,
  odd_iteration_flag,
  achieved_states_num,
  insn_equiv_classes_num,
  trans_table,
  state_alts_table,
  output_states_vect,   \* rows still to be added by the table encoder
  max_dfa_issue_rate,
  min_issue_delay_vect, \* order_state_num * classes + class -> delay
  max_min_delay,
  min_issue_delay_table_compression_factor,
  compressed_min_issue_delay_vect,
  reserved_units_table  \* order_state_num * state_byte_size + byte -> bits

vars == <<pc, description, units_array, insn_decls, reserv_decls,
          reported_cycles, have_error, ndfa_flag, w_flag,
          transformed_insns_num, regexp_transformed_p,
          no_minimization_flag, max_cycles_num, states, free_states,
          got_free_states, state_table, ainsn_list, start_state, state_stack, reservs_matter,
          tried, ndfa_arcs, dfa_start, dfa_arcs, equiv_classes,
          next_iteration_classes, new_equiv_class_num, odd_iteration_flag,
          achieved_states_num, insn_equiv_classes_num, trans_table,
          state_alts_table, output_states_vect, max_dfa_issue_rate,
          min_issue_delay_vect, reserved_units_table,
          max_min_delay, min_issue_delay_table_compression_factor,
          compressed_min_issue_delay_vect>>

(***************************************************************************)
(* Bounds of the explored descriptions.                                    *)
(***************************************************************************)
MaxInsns == 2       \* define_insn_reservation declarations per description
MaxRelDecls == 1    \* exclusion/presence/absence declarations
MaxReservs == 2     \* define_reservation declarations defined by each other

NULL == 0

Max(a, b) == IF a < b THEN b ELSE a
Range(s) == {s[i] : i \in 1..Len(s)}

(***************************************************************************)
(* Reservation expressions (struct regexp).                                *)
(***************************************************************************)
Unit(n) == [mode |-> "unit", name |-> n, unit_decl |-> NULL,
            regexps |-> <<>>, repeat_num |-> 0, reserv_decl |-> NULL]
Nothing == [mode |-> "nothing", name |-> "", unit_decl |-> NULL,
            regexps |-> <<>>, repeat_num |-> 0, reserv_decl |-> NULL]
Sequence(rs) == [mode |-> "sequence", name |-> "", unit_decl |-> NULL,
                 regexps |-> rs, repeat_num |-> 0,
   reserv_decl |-> NULL]
Allof(rs) == [mode |-> "allof", name |-> "", unit_decl |-> NULL,
              regexps |-> rs, repeat_num |-> 0,
   reserv_decl |-> NULL]
Oneof(rs) == [mode |-> "oneof", name |-> "", unit_decl |-> NULL,
              regexps |-> rs, repeat_num |-> 0,
   reserv_decl |-> NULL]
Repeat(r, n) == [mode |-> "repeat", name |-> "", unit_decl |-> NULL,
                 regexps |-> <<r>>, repeat_num |-> n, reserv_decl |-> NULL]
\* the rm_reserv node process_regexp puts in place of a unit node
Reserv(n, d) == [mode |-> "reserv", name |-> n, unit_decl |-> NULL,
                 regexps |-> <<>>, repeat_num |-> 0, reserv_decl |-> d]

(***************************************************************************)
(* Declarations as the gen_* entry points leave them.                      *)
(***************************************************************************)
\* the automaton name of a unit declared without one (a null pointer)
NoAutomatonName == ""

gen_cpu_unit(n, q) ==
  [mode |-> "unit", name |-> n, query_p |-> q, names |-> <<>>,
   patterns |-> <<>>, final_p |-> FALSE, regexp |-> Nothing,
   automaton_name |-> NoAutomatonName]

gen_automaton(n) ==
  [mode |-> "automaton", name |-> n, query_p |-> FALSE, names |-> <<>>,
   patterns |-> <<>>, final_p |-> FALSE, regexp |-> Nothing,
   automaton_name |-> NoAutomatonName]

gen_excl_set(first, second) ==
  [mode |-> "excl", name |-> "", query_p |-> FALSE, names |-> first,
   patterns |-> <<second>>, final_p |-> FALSE, regexp |-> Nothing,
   automaton_name |-> NoAutomatonName]

gen_presence_absence_set(ns, pats, presence_p, final_p) ==
  [mode |-> IF presence_p THEN "presence" ELSE "absence", name |-> "",
   query_p |-> FALSE, names |-> ns, patterns |-> pats, final_p |-> final_p,
   regexp |-> Nothing, automaton_name |-> NoAutomatonName]

gen_reserv(n, r) ==
  [mode |-> "reserv", name |-> n, query_p |-> FALSE, names |-> <<>>,
   patterns |-> <<>>, final_p |-> FALSE, regexp |-> r,
   automaton_name |-> NoAutomatonName]

gen_insn_reserv(n, r) ==
  [mode |-> "insn_reserv", name |-> n, query_p |-> FALSE, names |-> <<>>,
   patterns |-> <<>>, final_p |-> FALSE, regexp |-> r,
   automaton_name |-> NoAutomatonName]

\* struct unit_decl after create_node and gen_cpu_unit
NewUnitDecl(d) ==
  [name |-> d.name, query_p |-> d.query_p, unit_is_used |-> FALSE,
   unit_num |-> 0, query_num |-> 0, max_occ_cycle_num |-> 0,
   min_occ_cycle_num |-> -1,
   excl_list |-> <<>>, presence_list |-> <<>>, final_presence_list |-> <<>>,
   absence_list |-> <<>>, final_absence_list |-> <<>>, in_set_p |-> FALSE,
   automaton_name |-> d.automaton_name]

\* struct reserv_decl after create_node and gen_reserv
NewReservDecl(d) ==
  [name |-> d.name, regexp |-> d.regexp, reserv_is_used |-> FALSE,
   loop_pass_num |-> 0]

\* struct insn_reserv_decl after create_node and gen_insn_reserv
NewInsnReservDecl(d) ==
  [name |-> d.name, regexp |-> d.regexp, transformed_regexp |-> Nothing,
   insn_num |-> 0]


\* the function F on 1..n as the sequence <<F[1], ..., F[n]>>
SeqOf(F) == SubSeq(F, 1, Len(F))

\* LET v == ... IN F(v), with v evaluated once
Let(v, F(_)) == F(v)

RECURSIVE FoldSeq(_, _, _)
FoldSeq(Op(_, _), acc, s) ==
  IF s = <<>> THEN acc ELSE FoldSeq(Op, Op(acc, Head(s)), Tail(s))

RECURSIVE Flatten(_)
Flatten(ss) == IF ss = <<>> THEN <<>> ELSE Head(ss) \o Flatten(Tail(ss))

\* <<x, y>> for every x of xs (outer loop) and y of ys (inner loop)
Pairs(xs, ys) ==
  Flatten(SeqOf([i \in 1..Len(xs) |-> SeqOf([j \in 1..Len(ys) |-> <<xs[i], ys[j]>>])]))

(***************************************************************************)
(* Checker of the description.                                             *)
(***************************************************************************)
find_decl(ua, n) ==
  IF \E i \in 1..Len(ua) : ua[i].name = n
  THEN CHOOSE i \in 1..Len(ua) :
         ua[i].name = n /\ \A j \in 1..(i - 1) : ua[j].name # n
  ELSE NULL

\* unit_set_el list of the declared names, and whether error () was called
process_excls(ua, names) ==
  [list |-> SeqOf([i \in 1..Len(SelectSeq(names, LAMBDA n : find_decl(ua, n) # NULL))
               |-> find_decl(ua, SelectSeq(names,
                                  LAMBDA n : find_decl(ua, n) # NULL)[i])]),
   err |-> \E i \in 1..Len(names) : find_decl(ua, names[i]) = NULL]

process_presence_absence_names(ua, names) == process_excls(ua, names)

process_presence_absence_patterns(ua, patterns) ==
  [list |-> SeqOf([i \in 1..Len(patterns) |-> process_excls(ua, patterns[i]).list]),
   err |-> \E i \in 1..Len(patterns) : process_excls(ua, patterns[i]).err]

\* the units are declared in different automata
different_automata(ua, dst, src) ==
  /\ ua[dst].automaton_name # NoAutomatonName
  /\ ua[src].automaton_name # NoAutomatonName
  /\ ua[dst].automaton_name # ua[src].automaton_name

\* add_excls without the test of the automata of the two units
add_excls_in_any_automaton(ua0, dest_list, source_list) ==
  FoldSeq(LAMBDA acc, p :
            IF p[1] = p[2] THEN [acc EXCEPT !.err = TRUE]
            ELSE IF p[2] \in Range(acc.ua[p[1]].excl_list) THEN acc
            ELSE [acc EXCEPT !.ua[p[1]].excl_list = Append(@, p[2])],
          [ua |-> ua0, err |-> FALSE], Pairs(dest_list, source_list))

add_excls(ua0, dest_list, source_list) ==
  FoldSeq(LAMBDA acc, p :
            IF p[1] = p[2] THEN [acc EXCEPT !.err = TRUE]
            ELSE IF different_automata(acc.ua, p[1], p[2])
            THEN [acc EXCEPT !.err = TRUE]
            ELSE IF p[2] \in Range(acc.ua[p[1]].excl_list) THEN acc
            ELSE [acc EXCEPT !.ua[p[1]].excl_list = Append(@, p[2])],
          [ua |-> ua0, err |-> FALSE], Pairs(dest_list, source_list))

\* one iteration of the innermost loop of add_presence_absence
add_presence_absence_el(acc, dst, pat, unit, presence_p, final_p) ==
  LET d == acc.ua[dst]
      conflict ==
        IF presence_p
        THEN Len(pat) = 1 /\ unit \in Range(d.excl_list)
        ELSE Len(pat) = 1
             /\ \E k \in 1..Len(d.presence_list) :
                  Len(d.presence_list[k]) = 1 /\ d.presence_list[k][1] = unit
      no_error_flag == ~conflict \/ w_flag
      prev_list == IF presence_p THEN d.final_presence_list
                   ELSE IF final_p THEN d.final_absence_list
                   ELSE d.absence_list
      d2 == IF prev_list = <<>>
            THEN IF presence_p
                 THEN IF final_p
                      THEN [d EXCEPT !.final_presence_list = <<pat>>]
                      ELSE [d EXCEPT !.presence_list = <<pat>>]
                 ELSE IF final_p
                      THEN [d EXCEPT !.final_absence_list = <<pat>>]
                      ELSE [d EXCEPT !.absence_list = <<pat>>]
            ELSE IF presence_p
                 THEN [d EXCEPT !.final_presence_list = Append(@, pat)]
                 ELSE IF final_p
                      THEN [d EXCEPT !.final_absence_list = Append(@, pat)]
                      ELSE [d EXCEPT !.absence_list = Append(@, pat)]
  IN IF dst = unit /\ Len(pat) = 1 /\ ~presence_p
     THEN [acc EXCEPT !.err = TRUE]
     ELSE IF different_automata(acc.ua, dst, unit)
     THEN [acc EXCEPT !.err = TRUE]
     ELSE IF no_error_flag
          THEN [acc EXCEPT !.ua[dst] = d2]
          ELSE [acc EXCEPT !.err = TRUE]

add_presence_absence(ua0, dest_list, pattern_list, presence_p, final_p) ==
  FoldSeq(LAMBDA acc, p :
            FoldSeq(LAMBDA acc2, unit :
                      add_presence_absence_el(acc2, p[1], p[2], unit,
                                              presence_p, final_p),
                    acc, p[2]),
          [ua |-> ua0, err |-> FALSE], Pairs(dest_list, pattern_list))

\* the loops of process_decls over the declarations of one mode
process_decls_of_mode(acc0, decls, m) ==
  FoldSeq(LAMBDA acc, d :
            IF d.mode # m THEN acc
            ELSE IF m = "excl"
            THEN LET l1 == process_excls(acc.ua, d.names)
                     l2 == process_excls(acc.ua, d.patterns[1])
                     r1 == add_excls(acc.ua, l1.list, l2.list)
                     r2 == add_excls(r1.ua, l2.list, l1.list)
                 IN [ua |-> r2.ua,
                     err |-> acc.err \/ l1.err \/ l2.err \/ r1.err \/ r2.err]
            ELSE LET l1 == process_presence_absence_names(acc.ua, d.names)
                     l2 == process_presence_absence_patterns(acc.ua,
                                                             d.patterns)
                     r == add_presence_absence(acc.ua, l1.list, l2.list,
                                               m = "presence", d.final_p)
                 IN [ua |-> r.ua, err |-> acc.err \/ l1.err \/ l2.err \/ r.err],
          acc0, decls)

\* units and insns are numbered in declaration order, then the exclusion,
\* presence and absence declarations are processed in that order
process_decls(decls) ==
  LET uds == SelectSeq(decls, LAMBDA d : d.mode = "unit")
      \* query_num was given by expand_automata to the units with query_p
      ua0 == SeqOf([i \in 1..Len(uds) |->
                [NewUnitDecl(uds[i]) EXCEPT
                   !.unit_num = i - 1,
                   !.query_num =
                      IF uds[i].query_p
                      THEN Cardinality({j \in 1..(i - 1) : uds[j].query_p})
                      ELSE 0]])
      ids == SelectSeq(decls, LAMBDA d : d.mode = "insn_reserv")
      rds == SelectSeq(decls, LAMBDA d : d.mode = "reserv")
      named == SelectSeq(decls, LAMBDA d : d.mode \in {"unit", "reserv"})
      ads == SelectSeq(decls, LAMBDA d : d.mode = "automaton")
      automaton_presence == ads # <<>>
      repeated == \/ \E i, j \in 1..Len(named) :
                        i < j /\ named[i].name = named[j].name
                  \/ \E i, j \in 1..Len(ids) :
                        i < j /\ ids[i].name = ids[j].name
                  \/ /\ ~w_flag
                     /\ \E i, j \in 1..Len(ads) :
                           i < j /\ ads[i].name = ads[j].name
                  \/ \E i \in 1..Len(uds) :
                        IF uds[i].automaton_name # NoAutomatonName
                        THEN \A j \in 1..Len(ads) :
                               ads[j].name # uds[i].automaton_name
                        ELSE automaton_presence
      e == process_decls_of_mode([ua |-> ua0, err |-> repeated], decls, "excl")
      p == process_decls_of_mode(e, decls, "presence")
      a == process_decls_of_mode(p, decls, "absence")
  IN [ua |-> a.ua, err |-> a.err,
      insns |-> SeqOf([i \in 1..Len(ids) |->
                   [NewInsnReservDecl(ids[i]) EXCEPT !.insn_num = i - 1]]),
      reservs |-> SeqOf([i \in 1..Len(rds) |-> NewReservDecl(rds[i])])]

\* an automaton is declared and no unit names it
check_automaton_usage(decls) ==
  /\ ~w_flag
  /\ \E i \in 1..Len(decls) :
        /\ decls[i].mode = "automaton"
        /\ \A j \in 1..Len(decls) :
              decls[j].mode = "unit" => decls[j].automaton_name # decls[i].name

\* the unit or reservation declaration which insert_decl left in the table
\* under the name N: the first one declared
decl_in_table(decls, n) ==
  IF \E i \in 1..Len(decls) :
        decls[i].mode \in {"unit", "reserv"} /\ decls[i].name = n
  THEN CHOOSE i \in 1..Len(decls) :
         /\ decls[i].mode \in {"unit", "reserv"} /\ decls[i].name = n
         /\ \A j \in 1..(i - 1) :
               ~(decls[j].mode \in {"unit", "reserv"} /\ decls[j].name = n)
  ELSE NULL

\* position of the declaration decls[i] among those of its mode
decl_num_of_mode(decls, i) ==
  Cardinality({j \in 1..i : decls[j].mode = decls[i].mode})

RECURSIVE process_regexp(_, _, _)
process_regexp(ua, decls, regexp) ==
  IF regexp.mode = "unit"
  THEN Let(decl_in_table(decls, regexp.name), LAMBDA d :
         IF d = NULL THEN regexp
         ELSE IF decls[d].mode = "unit"
         THEN [regexp EXCEPT !.unit_decl = find_decl(ua, regexp.name)]
         ELSE Reserv(regexp.name, decl_num_of_mode(decls, d)))
  ELSE [regexp EXCEPT !.regexps =
          SeqOf([i \in 1..Len(regexp.regexps) |->
             process_regexp(ua, decls, regexp.regexps[i])])]

\* the reserv_decl of every rm_reserv node
RECURSIVE regexp_reserv_decls(_)
regexp_reserv_decls(regexp) ==
  IF regexp.mode = "reserv" THEN {regexp.reserv_decl}
  ELSE UNION {regexp_reserv_decls(regexp.regexps[i]) :
                i \in 1..Len(regexp.regexps)}

\* the unit_decl of every rm_unit node, NULL for an undeclared name
RECURSIVE regexp_unit_decls(_)
regexp_unit_decls(regexp) ==
  IF regexp.mode = "unit" THEN {regexp.unit_decl}
  ELSE UNION {regexp_unit_decls(regexp.regexps[i]) :
                i \in 1..Len(regexp.regexps)}

process_regexp_decls(ua, ra, decls, insns) ==
  LET rs == SeqOf([i \in 1..Len(insns) |->
               process_regexp(ua, decls, insns[i].regexp)])
      ds == SeqOf([i \in 1..Len(ra) |->
               process_regexp(ua, decls, ra[i].regexp)])
      all == rs \o ds
      used == UNION {regexp_unit_decls(all[i]) : i \in 1..Len(all)}
      used_reservs == UNION {regexp_reserv_decls(all[i]) : i \in 1..Len(all)}
  IN [ua |-> SeqOf([u \in 1..Len(ua) |->
                [ua[u] EXCEPT !.unit_is_used = u \in used]]),
      ra |-> SeqOf([r \in 1..Len(ra) |->
                [ra[r] EXCEPT !.regexp = ds[r],
                              !.reserv_is_used = r \in used_reservs]]),
      insns |-> SeqOf([i \in 1..Len(insns) |-> [insns[i] EXCEPT !.regexp = rs[i]]]),
      err |-> NULL \in used]

check_usage(ua, ra) ==
  /\ ~w_flag
  /\ \/ \E u \in 1..Len(ua) : ~ua[u].unit_is_used
     \/ \E r \in 1..Len(ra) : ~ra[r].reserv_is_used

RECURSIVE loop_in_regexp(_, _, _, _)
\* a reservation met for the second time is taken for a loop
loop_in_regexp_met_twice(ra, regexp, start_decl, curr_loop_pass_num) ==
  IF regexp.mode = "unit" THEN [ra |-> ra, result |-> FALSE]
  ELSE IF regexp.mode = "reserv"
  THEN IF \/ regexp.reserv_decl = start_decl
          \/ ra[regexp.reserv_decl].loop_pass_num = curr_loop_pass_num
       THEN [ra |-> ra, result |-> TRUE]
       ELSE loop_in_regexp(
              [ra EXCEPT ![regexp.reserv_decl].loop_pass_num =
                           curr_loop_pass_num],
              ra[regexp.reserv_decl].regexp, start_decl, curr_loop_pass_num)
  ELSE FoldSeq(LAMBDA acc, el :
                 IF acc.result THEN acc
                 ELSE loop_in_regexp(acc.ra, el, start_decl,
                                     curr_loop_pass_num),
               [ra |-> ra, result |-> FALSE], regexp.regexps)

\* [ra, result]: the loop_pass_num marks left and the value returned
loop_in_regexp(ra, regexp, start_decl, curr_loop_pass_num) ==
  IF regexp.mode = "unit" THEN [ra |-> ra, result |-> FALSE]
  ELSE IF regexp.mode = "reserv"
  THEN IF regexp.reserv_decl = start_decl
       THEN [ra |-> ra, result |-> TRUE]
       ELSE IF ra[regexp.reserv_decl].loop_pass_num = curr_loop_pass_num
       THEN [ra |-> ra, result |-> FALSE]
       ELSE loop_in_regexp(
              [ra EXCEPT ![regexp.reserv_decl].loop_pass_num =
                           curr_loop_pass_num],
              ra[regexp.reserv_decl].regexp, start_decl, curr_loop_pass_num)
  ELSE FoldSeq(LAMBDA acc, el :
                 IF acc.result THEN acc
                 ELSE loop_in_regexp(acc.ra, el, start_decl,
                                     curr_loop_pass_num),
               [ra |-> ra, result |-> FALSE], regexp.regexps)

\* [ra, cycles]: cycles holds the names of the "cycle in definition" errors
check_loops_in_regexps(decls, ra0) ==
  FoldSeq(LAMBDA acc, i :
            IF decls[i].mode # "reserv" THEN acc
            ELSE Let(decl_num_of_mode(decls, i), LAMBDA r :
                   Let(loop_in_regexp(
                         [acc.ra EXCEPT ![r].loop_pass_num = i - 1],
                         acc.ra[r].regexp, r, i - 1), LAMBDA x :
                     [ra |-> x.ra,
                      cycles |-> IF x.result
                                 THEN acc.cycles \cup {acc.ra[r].name}
                                 ELSE acc.cycles])),
          [ra |-> SeqOf([r \in 1..Len(ra0) |->
                     [ra0[r] EXCEPT !.loop_pass_num = 0]]),
           cycles |-> {}],
          SeqOf([i \in 1..Len(decls) |-> i]))

\* acc = [ua, max_finish_cycle, min_finish_cycle]
RECURSIVE process_regexp_cycles(_, _, _, _, _)
process_regexp_cycles(ra, acc, regexp, max_start_cycle, min_start_cycle) ==
  IF regexp.mode = "reserv"
  THEN process_regexp_cycles(ra, acc, ra[regexp.reserv_decl].regexp,
                             max_start_cycle, min_start_cycle)
  ELSE IF regexp.mode = "unit"
  THEN LET u == regexp.unit_decl
           d == acc.ua[u]
       IN [ua |-> [acc.ua EXCEPT ![u] =
                     [d EXCEPT
                        !.max_occ_cycle_num = Max(@, max_start_cycle),
                        !.min_occ_cycle_num =
                           IF @ > min_start_cycle \/ @ = -1
                           THEN min_start_cycle ELSE @]],
           max_finish_cycle |-> max_start_cycle,
           min_finish_cycle |-> min_start_cycle]
  ELSE IF regexp.mode \in {"repeat", "sequence"}
  THEN LET els == IF regexp.mode = "repeat"
                  THEN SeqOf([i \in 1..regexp.repeat_num |-> regexp.regexps[1]])
                  ELSE regexp.regexps
           r == FoldSeq(LAMBDA a, el :
                          LET x == process_regexp_cycles(ra, a.acc, el, a.max,
                                                         a.min)
                          IN [acc |-> x, max |-> x.max_finish_cycle + 1,
                              min |-> x.min_finish_cycle + 1],
                        [acc |-> acc, max |-> max_start_cycle,
                         min |-> min_start_cycle], els)
       IN r.acc
  ELSE IF regexp.mode \in {"allof", "oneof"}
  THEN LET r == FoldSeq(LAMBDA a, i :
                          LET x == process_regexp_cycles(ra, a.acc,
                                     regexp.regexps[i], max_start_cycle,
                                     min_start_cycle)
                          IN [acc |-> x,
                              max |-> Max(a.max, x.max_finish_cycle),
                              min |-> IF i = 1 \/ a.min > x.min_finish_cycle
                                      THEN x.min_finish_cycle ELSE a.min],
                        [acc |-> acc, max |-> 0, min |-> 0],
                        SeqOf([i \in 1..Len(regexp.regexps) |-> i]))
       IN [ua |-> r.acc.ua, max_finish_cycle |-> r.max,
           min_finish_cycle |-> r.min]
  ELSE [ua |-> acc.ua, max_finish_cycle |-> max_start_cycle,
        min_finish_cycle |-> min_start_cycle]

\* evaluate_max_reserv_cycles without the final increment
evaluate_max_reserv_cycles_last_cycle(ua, ra, insns) ==
  LET r == FoldSeq(LAMBDA a, insn :
                     LET x == process_regexp_cycles(ra,
                                [ua |-> a.ua, max_finish_cycle |-> 0,
                                 min_finish_cycle |-> 0], insn.regexp, 0, 0)
                     IN [ua |-> x.ua,
                         max |-> Max(a.max, x.max_finish_cycle)],
                   [ua |-> ua, max |-> 0], insns)
  IN [ua |-> r.ua, max_insn_reserv_cycles |-> r.max]

evaluate_max_reserv_cycles(ua, ra, insns) ==
  LET r == FoldSeq(LAMBDA a, insn :
                     LET x == process_regexp_cycles(ra,
                                [ua |-> a.ua, max_finish_cycle |-> 0,
                                 min_finish_cycle |-> 0], insn.regexp, 0, 0)
                     IN [ua |-> x.ua,
                         max |-> Max(a.max, x.max_finish_cycle)],
                   [ua |-> ua, max |-> 0], insns)
  IN [ua |-> r.ua, max_insn_reserv_cycles |-> r.max + 1]

(***************************************************************************)
(* The explored descriptions: the units a, b and c, up to MaxRelDecls      *)
(* declarations of ExtraDeclPool and up to MaxInsns reservations of        *)
(* InsnPool.  A unit is declared when some reservation uses it.            *)
(***************************************************************************)
ExtraDeclPool ==
  << gen_excl_set(<<"a">>, <<"b">>),
     gen_presence_absence_set(<<"a">>, << <<"b", "c">> >>, TRUE, FALSE),
     gen_presence_absence_set(<<"a">>, << <<"b", "c">> >>, TRUE, TRUE),
     gen_presence_absence_set(<<"a">>, << <<"b">>, <<"c">> >>, TRUE, TRUE),
     gen_presence_absence_set(<<"a">>, << <<"b">> >>, FALSE, FALSE),
     gen_presence_absence_set(<<"a">>, << <<"b">> >>, FALSE, TRUE),
     gen_cpu_unit("b", TRUE) >>

InsnPool ==
  << Unit("a"),
     Unit("b"),
     Allof(<<Unit("a"), Unit("b")>>),
     Allof(<<Unit("a"), Unit("b"), Unit("c")>>),
     Oneof(<<Unit("a"), Sequence(<<Unit("a"), Unit("a")>>)>>),
     Oneof(<<Unit("a"), Allof(<<Unit("a"), Unit("b")>>)>>),
     Sequence(<<Oneof(<<Unit("a"), Unit("b")>>), Unit("c")>>),
     Oneof(<<Sequence(<<Unit("a"), Unit("a")>>), Unit("a")>>) >>

UnitNames == <<"a", "b", "c">>
InsnNames == <<"i1", "i2", "i3", "i4">>

\* non-decreasing sequences of lo..hi indices into a pool of k elements
IndexLists(k, lo, hi) ==
  UNION {{s \in [1..n -> 1..k] : \A i \in 1..(n - 1) : s[i] <= s[i + 1]} :
           n \in lo..hi}

\* the sequences of IndexLists which repeat no index
StrictIndexLists(k, lo, hi) ==
  {s \in IndexLists(k, lo, hi) : \A i \in 1..(Len(s) - 1) : s[i] < s[i + 1]}

RECURSIVE regexp_names(_)
regexp_names(regexp) ==
  IF regexp.mode = "unit" THEN {regexp.name}
  ELSE UNION {regexp_names(regexp.regexps[i]) : i \in 1..Len(regexp.regexps)}

MkDecls(es, is) ==
  LET extras == SeqOf([i \in 1..Len(es) |-> ExtraDeclPool[es[i]]])
      used == UNION {regexp_names(InsnPool[is[i]]) : i \in 1..Len(is)}
      query == {extras[i].name : i \in {j \in 1..Len(extras) :
                                           extras[j].mode = "unit"}}
      names == SelectSeq(UnitNames, LAMBDA n : n \in used)
  IN SeqOf([i \in 1..Len(names) |-> gen_cpu_unit(names[i], names[i] \in query)])
     \o SelectSeq(extras, LAMBDA d : d.mode # "unit")
     \o SeqOf([i \in 1..Len(is) |-> gen_insn_reserv(InsnNames[i], InsnPool[is[i]])])

\* The unit a, the reservations r, s, ... each defined as a, as one of the
\* reservations, or as a followed by one of the reservations, and an
\* instruction which uses them all.  The unit is declared first or last.
ReservNames == <<"r", "s", "t">>

ReservDefs(k) ==
  <<Unit("a")>>
  \o SeqOf([n \in 1..k |-> Unit(ReservNames[n])])
  \o SeqOf([n \in 1..k |-> Sequence(<<Unit("a"), Unit(ReservNames[n])>>)])

MkReservDecls(ds, unit_first) ==
  LET rs == SeqOf([n \in 1..Len(ds) |->
               gen_reserv(ReservNames[n], ReservDefs(Len(ds))[ds[n]])])
      us == <<gen_cpu_unit("a", FALSE)>>
  IN (IF unit_first THEN us \o rs ELSE rs \o us)
     \o <<gen_insn_reserv("i1",
            Sequence(SeqOf([n \in 1..Len(ds) |-> Unit(ReservNames[n])])))>>

\* descriptions with more declarations than MkDecls gives
ScenarioPool ==
  << \* a needs b and c; i1 and i2 followed by a cycle advance give the
     \* same reservations
     << gen_cpu_unit("a", FALSE), gen_cpu_unit("b", FALSE),
        gen_cpu_unit("c", FALSE),
        gen_presence_absence_set(<<"a">>, << <<"b", "c">> >>, TRUE, FALSE),
        gen_insn_reserv("i1", Allof(<<Unit("b"), Unit("c")>>)),
        gen_insn_reserv("i2", Sequence(<<Unit("c"),
                                         Allof(<<Unit("b"), Unit("c")>>)>>)),
        gen_insn_reserv("i3", Unit("a")) >>,
     \* r and s are defined by each other
     << gen_cpu_unit("a", FALSE),
        gen_reserv("r", Unit("s")), gen_reserv("s", Unit("r")),
        gen_insn_reserv("i1", Unit("r")),
        gen_insn_reserv("i2", Unit("a")) >>,
     \* the same with r as the first declaration
     << gen_reserv("r", Unit("s")), gen_reserv("s", Unit("r")),
        gen_cpu_unit("a", FALSE),
        gen_insn_reserv("i1", Sequence(<<Unit("a"), Unit("r")>>)) >>,
     \* r is defined by itself
     << gen_cpu_unit("a", FALSE),
        gen_reserv("r", Oneof(<<Unit("a"), Unit("r")>>)),
        gen_insn_reserv("i1", Unit("r")) >>,
     \* r leads to the cycle of s and is not on it
     << gen_cpu_unit("a", FALSE),
        gen_reserv("r", Unit("s")),
        gen_reserv("s", Sequence(<<Unit("a"), Unit("s")>>)),
        gen_insn_reserv("i1", Unit("r")) >>,
     \* r uses s twice, no cycle
     << gen_cpu_unit("a", FALSE),
        gen_reserv("s", Unit("a")),
        gen_reserv("r", Sequence(<<Unit("s"), Unit("s")>>)),
        gen_insn_reserv("i1", Unit("r")) >>,
     \* a chain of reservations with `|' and repetition, no cycle
     << gen_cpu_unit("a", FALSE), gen_cpu_unit("b", FALSE),
        gen_cpu_unit("c", FALSE),
        gen_reserv("r", Oneof(<<Unit("a"), Unit("b")>>)),
        gen_reserv("s", Sequence(<<Unit("r"), Repeat(Unit("a"), 2)>>)),
        gen_insn_reserv("i1", Unit("s")),
        gen_insn_reserv("i2", Allof(<<Unit("r"), Oneof(<<Unit("c"),
                                                         Unit("a")>>)>>)) >>,
     \* the reservation t is not declared
     << gen_cpu_unit("a", FALSE),
        gen_reserv("r", Allof(<<Unit("a"), Unit("t")>>)),
        gen_insn_reserv("i1", Unit("r")) >>,
     \* a needs b and c; i2 and i3 are issued only after i1, and lead to
     \* different states
     << gen_cpu_unit("a", FALSE), gen_cpu_unit("b", FALSE),
        gen_cpu_unit("c", FALSE),
        gen_presence_absence_set(<<"a">>, << <<"b", "c">> >>, TRUE, FALSE),
        gen_insn_reserv("i1", Sequence(<<Allof(<<Unit("b"), Unit("c")>>),
                                         Allof(<<Unit("b"), Unit("c")>>)>>)),
        gen_insn_reserv("i2", Unit("a")),
        gen_insn_reserv("i3", Sequence(<<Unit("a"), Unit("a")>>)) >>,
     \* a sequence which starts with a and b for two cycles, together with
     \* a sequence of c
     << gen_cpu_unit("a", FALSE), gen_cpu_unit("b", FALSE),
        gen_cpu_unit("c", FALSE),
        gen_insn_reserv("i1",
          Allof(<<Sequence(<<Allof(<<Sequence(<<Unit("a"), Unit("a")>>),
                                     Unit("b")>>),
                             Unit("b")>>),
                  Sequence(<<Unit("c"), Unit("c")>>)>>)) >>,
     \* a needs b or c
     << gen_cpu_unit("a", FALSE), gen_cpu_unit("b", FALSE),
        gen_cpu_unit("c", FALSE),
        gen_presence_absence_set(<<"a">>, << <<"b">>, <<"c">> >>, TRUE, FALSE),
        gen_insn_reserv("i1", Unit("b")),
        gen_insn_reserv("i2", Unit("c")),
        gen_insn_reserv("i3", Unit("a")) >>,
     \* a reservation which ends with a cycle without units
     << gen_cpu_unit("a", FALSE),
        gen_insn_reserv("i1", Sequence(<<Unit("a"), Nothing>>)) >> >>

NoTable == [full_vect |-> <<>>, comb_vect |-> <<>>, check_vect |-> <<>>,
            base_vect |-> <<>>,
            min_comb_vect_el_value |-> 0, max_comb_vect_el_value |-> 0]

Init ==
  /\ \E decls \in
          {MkDecls(es, is) :
             es \in StrictIndexLists(Len(ExtraDeclPool), 0, MaxRelDecls),
             is \in StrictIndexLists(Len(InsnPool), 1, MaxInsns)}
          \cup {MkReservDecls(ds, unit_first) :
                  ds \in [1..MaxReservs -> 1..(2 * MaxReservs + 1)],
                  unit_first \in BOOLEAN}
          \cup Range(ScenarioPool) :
       description =
         [decls |-> decls, units_num |-> 0, insns_num |-> 0,
          max_insn_reserv_cycles |-> 0,
          query_units_num |->
             Cardinality({i \in 1..Len(decls) :
                            decls[i].mode = "unit" /\ decls[i].query_p})]
  /\ ndfa_flag \in BOOLEAN
  /\ w_flag \in BOOLEAN
  /\ transformed_insns_num = 0
  /\ regexp_transformed_p = FALSE
  /\ no_minimization_flag \in BOOLEAN
  /\ pc = "check_all_description"
  /\ units_array = <<>>
  /\ insn_decls = <<>>
  /\ reserv_decls = <<>>
  /\ reported_cycles = {}
  /\ have_error = FALSE
  /\ max_cycles_num = 0
  /\ states = <<>>
  /\ free_states = <<>>
  /\ got_free_states = <<>>
  /\ state_table = {}
  /\ ainsn_list = <<>>
  /\ start_state = NULL
  /\ state_stack = <<>>
  /\ reservs_matter = {}
  /\ tried = {}
  /\ ndfa_arcs = <<>>
  /\ dfa_start = NULL
  /\ dfa_arcs = <<>>
  /\ equiv_classes = <<>>
  /\ next_iteration_classes = <<>>
  /\ new_equiv_class_num = 0
  /\ odd_iteration_flag = FALSE
  /\ achieved_states_num = 0
  /\ insn_equiv_classes_num = 0
  /\ trans_table = NoTable
  /\ state_alts_table = NoTable
  /\ output_states_vect = <<>>
  /\ max_dfa_issue_rate = 0
  /\ min_issue_delay_vect = <<>>
  /\ max_min_delay = 0
  /\ min_issue_delay_table_compression_factor = 0
  /\ compressed_min_issue_delay_vect = <<>>
  /\ reserved_units_table = <<>>

(***************************************************************************)
(* Transformation of the reservations: `|' is lifted to the top.           *)
(***************************************************************************)
\* the copy with every reservation name replaced by its definition
RECURSIVE copy_insn_regexp(_, _)
copy_insn_regexp(ra, regexp) ==
  IF regexp.mode = "reserv"
  THEN copy_insn_regexp(ra, ra[regexp.reserv_decl].regexp)
  ELSE [regexp EXCEPT !.regexps =
          SeqOf([i \in 1..Len(regexp.regexps) |->
             copy_insn_regexp(ra, regexp.regexps[i])])]

\* A*N -> A, A, ...
transform_1(regexp) ==
  IF regexp.mode = "repeat"
  THEN Sequence(SeqOf([i \in 1..regexp.repeat_num |-> regexp.regexps[1]]))
  ELSE regexp

\* index of the first operand of the given mode, 0 if there is none
first_operand_of_mode(regexp, m) ==
  IF \E i \in 1..Len(regexp.regexps) : regexp.regexps[i].mode = m
  THEN CHOOSE i \in 1..Len(regexp.regexps) :
         /\ regexp.regexps[i].mode = m
         /\ \A j \in 1..(i - 1) : regexp.regexps[j].mode # m
  ELSE 0

\* transform_2 which exchanges the first two operands of a `+'
transform_2_exchanging(regexp) ==
  IF regexp.mode = "allof" /\ Len(regexp.regexps) >= 2
  THEN [regexp EXCEPT !.regexps =
          <<@[2], @[1]>> \o SubSeq(@, 3, Len(@))]
  ELSE regexp

\* ...,(A,B,...),C,... -> ...,A,B,...,C,...  and the same for `+' and `|'
transform_2(regexp) ==
  IF regexp.mode \in {"sequence", "allof", "oneof"}
  THEN LET index == first_operand_of_mode(regexp, regexp.mode)
       IN IF index = 0 THEN regexp
          ELSE [regexp EXCEPT !.regexps =
                  SubSeq(@, 1, index - 1) \o @[index].regexps
                  \o SubSeq(@, index + 1, Len(@))]
  ELSE regexp

\* transform_3 which moves the alternatives up and leaves the sequences of
\* a `+' in their place
transform_3_of_alternatives(regexp) ==
  LET oneof_index == first_operand_of_mode(regexp, "oneof")
      ops == regexp.regexps
  IN IF regexp.mode \in {"sequence", "allof"} /\ oneof_index # 0
     THEN Oneof(SeqOf([i \in 1..Len(ops[oneof_index].regexps) |->
                   [regexp EXCEPT !.regexps[oneof_index] =
                      ops[oneof_index].regexps[i]]]))
     ELSE regexp

\* ...,A|B|...,C,... -> (...,A,C,...)|(...,B,C,...)|...
\* ...+(A|B|...)+C+... -> (...+A+C+...)|(...+B+C+...)|...
\* ...+(A,B,...)+C+... -> (...+A+C+...),B,...
transform_3(regexp) ==
  LET oneof_index == first_operand_of_mode(regexp, "oneof")
      ops == regexp.regexps
      max_seq_length ==
        IF \E j \in 1..Len(ops) :
             ops[j].mode \notin {"sequence", "unit", "nothing"}
        THEN 0
        ELSE LET lens == {Len(ops[j].regexps) :
                            j \in {k \in 1..Len(ops) :
                                     ops[k].mode = "sequence"}}
             IN IF lens = {} THEN 0
                ELSE CHOOSE l \in lens : \A l2 \in lens : l2 <= l
      \* operands of the allof standing at place i of the new sequence
      allof_ops(i) ==
        LET js == SelectSeq(SeqOf([j \in 1..Len(ops) |-> j]),
                    LAMBDA j :
                      \/ ops[j].mode = "sequence" /\ i <= Len(ops[j].regexps)
                      \/ i = 1 /\ ops[j].mode \in {"unit", "nothing"})
        IN SeqOf([k \in 1..Len(js) |->
              IF ops[js[k]].mode = "sequence" THEN ops[js[k]].regexps[i]
              ELSE ops[js[k]]])
  IN IF regexp.mode \in {"sequence", "allof"} /\ oneof_index # 0
     THEN Oneof(SeqOf([i \in 1..Len(ops[oneof_index].regexps) |->
                   [regexp EXCEPT !.regexps[oneof_index] =
                      ops[oneof_index].regexps[i]]]))
     ELSE IF regexp.mode = "allof" /\ max_seq_length # 0
     THEN Sequence(SeqOf([i \in 1..max_seq_length |->
                      IF Len(allof_ops(i)) = 1 THEN allof_ops(i)[1]
                      ELSE Allof(allof_ops(i))]))
     ELSE regexp

transform(func, regexp) ==
  CASE func = 1 -> transform_1(regexp)
    [] func = 2 -> transform_2(regexp)
    [] OTHER -> transform_3(regexp)

\* the transformed regexp and whether regexp_transformed_p was set
RECURSIVE regexp_transform_func(_, _)
regexp_transform_func(regexp, func) ==
  LET subs == SeqOf([i \in 1..Len(regexp.regexps) |->
                 regexp_transform_func(regexp.regexps[i], func)])
      r == [regexp EXCEPT !.regexps = SeqOf([i \in 1..Len(subs) |-> subs[i].regexp])]
  IN [regexp |-> transform(func, r),
      transformed_p |-> \/ \E i \in 1..Len(subs) : subs[i].transformed_p
                        \/ transform(func, r) # r]

\* one round of the loop of transform_regexp
transform_regexp_once(regexp) ==
  regexp_transform_func(regexp_transform_func(regexp, 2).regexp, 3).regexp

RECURSIVE transform_regexp_loop(_)
transform_regexp_loop(regexp) ==
  LET r2 == regexp_transform_func(regexp, 2)
      r3 == regexp_transform_func(r2.regexp, 3)
  IN IF r2.transformed_p \/ r3.transformed_p
     THEN transform_regexp_loop(r3.regexp)
     ELSE r3.regexp

transform_regexp(regexp) ==
  transform_regexp_loop(regexp_transform_func(regexp, 1).regexp)

advance_cycle_insn_decl_name == "$advance_cycle"

add_advance_cycle_insn_decl(insns) ==
  Append(insns, [name |-> advance_cycle_insn_decl_name, regexp |-> Nothing,
                 transformed_regexp |-> Nothing, insn_num |-> Len(insns)])

(***************************************************************************)
(* Reservation sets.  A set holds <<cycle, unit_num>> for every set bit.   *)
(***************************************************************************)
\* set_unit_reserv which sets the bit of the next cycle
set_unit_reserv_in_next_cycle(reservs, cycle_num, unit_num) ==
  reservs \cup {<<cycle_num + 1, unit_num>>}

set_unit_reserv(reservs, cycle_num, unit_num) ==
  reservs \cup {<<cycle_num, unit_num>>}

test_unit_reserv(reservs, cycle_num, unit_num) ==
  <<cycle_num, unit_num>> \in reservs

\* the units reserved on one cycle
cycle_reserv(reservs, cycle) == {b[2] : b \in {x \in reservs : x[1] = cycle}}

reserv_sets_or(operand_1, operand_2) == operand_1 \cup operand_2

reserv_sets_and(operand_1, operand_2) == operand_1 \cap operand_2

\* the reservations stay on their cycles
reserv_sets_shift_none(result, operand) == operand

\* the last cycle of the result is the last cycle of OPERAND
reserv_sets_shift_operand_tail(result, operand) ==
  {b \in operand : b[1] >= max_cycles_num - 1}
  \cup {<<b[1] - 1, b[2]>> : b \in {x \in operand : x[1] >= 1}}

\* the cycles of RESULT but the last one are set by the next cycles of
\* OPERAND, the last cycle of RESULT stays as it is
reserv_sets_shift(result, operand) ==
  {b \in result : b[1] >= max_cycles_num - 1}
  \cup {<<b[1] - 1, b[2]>> : b \in {x \in operand : x[1] >= 1}}

\* unit_excl_set_table [unit_num] of initiate_excl_sets
unit_excl_set_table(ua, unit_num) ==
  {ua[e].unit_num : e \in Range(ua[unit_num + 1].excl_list)}

\* the units of IN_SET are returned instead of the units they exclude
get_excl_set_of_no_unit(ua, in_set) == in_set

get_excl_set(ua, in_set) ==
  UNION {unit_excl_set_table(ua, u) : u \in in_set}

form_reserv_sets_list(ua, pattern_list) ==
  SeqOf([k \in 1..Len(pattern_list) |->
     {ua[e].unit_num : e \in Range(pattern_list[k])}])

\* both tables are formed from the final presence list
unit_final_presence_set_table(ua, unit_num, final_p) ==
  form_reserv_sets_list(ua, ua[unit_num + 1].final_presence_list)

unit_presence_set_table(ua, unit_num, final_p) ==
  form_reserv_sets_list(ua, IF final_p
                            THEN ua[unit_num + 1].final_presence_list
                            ELSE ua[unit_num + 1].presence_list)

unit_absence_set_table(ua, unit_num, final_p) ==
  form_reserv_sets_list(ua, IF final_p
                            THEN ua[unit_num + 1].final_absence_list
                            ELSE ua[unit_num + 1].absence_list)

\* presence_p is not cleared before the loop over the patterns of a unit:
\* no unit makes the check fail
check_presence_pattern_sets_set_flag(ua, checked_set, origional_set, final_p) ==
  \A start_unit_num \in origional_set : TRUE

check_presence_pattern_sets(ua, checked_set, origional_set, final_p) ==
  \A start_unit_num \in origional_set :
    LET pats == unit_presence_set_table(ua, start_unit_num, final_p)
    IN pats = <<>> \/ \E k \in 1..Len(pats) : pats[k] \subseteq checked_set

\* a pattern is found only when it is the whole CHECKED_SET
check_absence_pattern_sets_whole_set(ua, checked_set, origional_set, final_p) ==
  \A start_unit_num \in origional_set :
    LET pats == unit_absence_set_table(ua, start_unit_num, final_p)
    IN \A k \in 1..Len(pats) : pats[k] # checked_set

check_absence_pattern_sets(ua, checked_set, origional_set, final_p) ==
  \A start_unit_num \in origional_set :
    LET pats == unit_absence_set_table(ua, start_unit_num, final_p)
    IN \A k \in 1..Len(pats) : ~(pats[k] \subseteq checked_set)

\* temp_reserv is the checked set of the presence lists too
reserv_sets_are_intersected_by_result(ua, cycles, operand_1, operand_2) ==
  \/ operand_1 \cap operand_2 # {}
  \/ LET temp_reserv == reserv_sets_or(operand_1, operand_2)
     IN \E c \in 0..(cycles - 1) :
          LET cycle_1 == cycle_reserv(operand_1, c)
              cycle_2 == cycle_reserv(operand_2, c)
              temp == cycle_reserv(temp_reserv, c)
          IN \/ cycle_1 \cap get_excl_set(ua, cycle_2) # {}
             \/ ~check_presence_pattern_sets(ua, temp, cycle_2, FALSE)
             \/ ~check_presence_pattern_sets(ua, temp, cycle_2, TRUE)
             \/ ~check_absence_pattern_sets(ua, cycle_1, cycle_2, FALSE)
             \/ ~check_absence_pattern_sets(ua, temp, cycle_2, TRUE)

reserv_sets_are_intersected(ua, cycles, operand_1, operand_2) ==
  \/ operand_1 \cap operand_2 # {}
  \/ LET temp_reserv == reserv_sets_or(operand_1, operand_2)
     IN \E c \in 0..(cycles - 1) :
          LET cycle_1 == cycle_reserv(operand_1, c)
              cycle_2 == cycle_reserv(operand_2, c)
              temp == cycle_reserv(temp_reserv, c)
          IN \/ cycle_1 \cap get_excl_set(ua, cycle_2) # {}
             \/ ~check_presence_pattern_sets(ua, cycle_1, cycle_2, FALSE)
             \/ ~check_presence_pattern_sets(ua, temp, cycle_2, TRUE)
             \/ ~check_absence_pattern_sets(ua, cycle_1, cycle_2, FALSE)
             \/ ~check_absence_pattern_sets(ua, temp, cycle_2, TRUE)

\* in_set_p as initiate_excl_sets and form_reserv_sets_list leave it
initiate_sets(ua) ==
  LET in_sets ==
        UNION {Range(ua[u].excl_list)
               \cup UNION {Range(pat) :
                             pat \in Range(ua[u].presence_list)
                                     \cup Range(ua[u].final_presence_list)
                                     \cup Range(ua[u].absence_list)
                                     \cup Range(ua[u].final_absence_list)} :
               u \in 1..Len(ua)}
  IN SeqOf([u \in 1..Len(ua) |-> [ua[u] EXCEPT !.in_set_p = u \in in_sets]])

(***************************************************************************)
(* States.  h = [states, free_states, state_table] is the heap of state    *)
(* nodes: states[unique_num + 1] is the node, free_states the VLA of freed *)
(* nodes and state_table the set of nodes in the hash table.               *)
(***************************************************************************)
NewState(n) ==
  [unique_num |-> n, reservs |-> {}, component_states |-> <<>>,
   first_out_arc |-> <<>>,
   it_was_placed_in_stack_for_NDFA_forming |-> FALSE,
   it_was_placed_in_stack_for_DFA_forming |-> FALSE,
   equiv_class_num_1 |-> 0, equiv_class_num_2 |-> 0,
   equiv_class_state |-> NULL, order_state_num |-> 0]

\* get_free_state which numbers a new node as the node before it
get_free_state_same_num(h, with_reservs) ==
  LET reused == Len(h.free_states) # 0
      result == IF reused THEN h.free_states[Len(h.free_states)]
                ELSE Len(h.states) + 1
      node == IF reused
              THEN [h.states[result] EXCEPT
                      !.first_out_arc = <<>>,
                      !.it_was_placed_in_stack_for_NDFA_forming = FALSE,
                      !.it_was_placed_in_stack_for_DFA_forming = FALSE,
                      !.component_states = <<>>]
              ELSE NewState(Max(Len(h.states) - 1, 0))
      node2 == IF with_reservs THEN [node EXCEPT !.reservs = {}] ELSE node
  IN [h |-> [h EXCEPT
               !.states = IF reused THEN [@ EXCEPT ![result] = node2]
                          ELSE Append(@, node2),
               !.free_states = IF reused THEN SubSeq(@, 1, Len(@) - 1)
                               ELSE @,
               !.got_free_states =
                  Append(@, [state |-> result,
                             unique_num |-> node2.unique_num])],
      result |-> result]

get_free_state(h, with_reservs) ==
  LET reused == Len(h.free_states) # 0
      result == IF reused THEN h.free_states[Len(h.free_states)]
                ELSE Len(h.states) + 1
      node == IF reused
              THEN [h.states[result] EXCEPT
                      !.first_out_arc = <<>>,
                      !.it_was_placed_in_stack_for_NDFA_forming = FALSE,
                      !.it_was_placed_in_stack_for_DFA_forming = FALSE,
                      !.component_states = <<>>]
              ELSE NewState(Len(h.states))
      node2 == IF with_reservs THEN [node EXCEPT !.reservs = {}] ELSE node
  IN [h |-> [h EXCEPT
               !.states = IF reused THEN [@ EXCEPT ![result] = node2]
                          ELSE Append(@, node2),
               !.free_states = IF reused THEN SubSeq(@, 1, Len(@) - 1)
                               ELSE @,
               !.got_free_states =
                  Append(@, [state |-> result,
                             unique_num |-> node2.unique_num])],
      result |-> result]

free_state(h, state) == [h EXCEPT !.free_states = Append(@, state)]

\* states are the same only when they are the same node
state_eq_p_same_node(h, state_1, state_2) == state_1 = state_2

state_eq_p(h, state_1, state_2) ==
  LET s1 == h.states[state_1]
      s2 == h.states[state_2]
  IN IF s1.component_states = <<>> /\ s2.component_states = <<>>
     THEN s1.reservs = s2.reservs
     ELSE IF s1.component_states # <<>> /\ s2.component_states # <<>>
     THEN s1.component_states = s2.component_states
     ELSE FALSE

\* the node of the table equal to STATE; STATE enters the table if none is
insert_state(h, state) ==
  IF \E t \in h.state_table : state_eq_p(h, t, state)
  THEN [h |-> h,
        result |-> CHOOSE t \in h.state_table : state_eq_p(h, t, state)]
  ELSE [h |-> [h EXCEPT !.state_table = @ \cup {state}], result |-> state]

\* get_free_state (1), the reservations, insert_state and free_state of
\* the node when an equal one was found: the tail of states_union,
\* state_shift and finish_forming_alt_state
intern_reservs(h, reservs) ==
  LET f == get_free_state(h, TRUE)
      h1 == [f.h EXCEPT !.states[f.result].reservs = reservs]
      ins == insert_state(h1, f.result)
  IN IF ins.result # f.result
     THEN [h |-> free_state(ins.h, f.result), result |-> ins.result]
     ELSE ins

states_union(h, state1, state2, reservs) ==
  intern_reservs(h, reserv_sets_and(
                      reserv_sets_or(h.states[state1].reservs,
                                     h.states[state2].reservs), reservs))

\* state_shift which does not mask the shifted reservations by RESERVS
state_shift_unmasked(h, state, reservs) ==
  intern_reservs(h, reserv_sets_shift({}, h.states[state].reservs))

\* the reservs of the result of get_free_state (1) are empty
state_shift(h, state, reservs) ==
  intern_reservs(h, reserv_sets_and(
                      reserv_sets_shift({}, h.states[state].reservs),
                      reservs))

(***************************************************************************)
(* Alt states: the reservations of every alternative of every insn.        *)
(***************************************************************************)
\* acc = [reservs, cycle]: the state being formed and the returned cycle
RECURSIVE process_seq_for_forming_states(_, _, _)
process_seq_for_forming_states(reservs, regexp, curr_cycle) ==
  IF regexp.mode = "unit"
  THEN [reservs |-> set_unit_reserv(reservs, curr_cycle,
                                    regexp.unit_decl - 1),
        cycle |-> curr_cycle]
  ELSE IF regexp.mode = "sequence"
  THEN FoldSeq(LAMBDA a, el :
                 LET x == process_seq_for_forming_states(a.reservs, el,
                                                         a.cycle)
                 IN [reservs |-> x.reservs, cycle |-> x.cycle + 1],
               [reservs |-> reservs, cycle |-> curr_cycle], regexp.regexps)
  ELSE IF regexp.mode = "allof"
  THEN FoldSeq(LAMBDA a, el :
                 LET x == process_seq_for_forming_states(a.reservs, el,
                                                         curr_cycle)
                 IN [reservs |-> x.reservs, cycle |-> Max(a.cycle, x.cycle)],
               [reservs |-> reservs, cycle |-> 0], regexp.regexps)
  ELSE [reservs |-> reservs, cycle |-> curr_cycle]

\* acc = [h, alt_states]; the alternatives are processed in reverse order
\* and every new alt state is put in front of the list
process_alts_for_forming_states(h0, regexp) ==
  LET alts == IF regexp.mode = "oneof" THEN regexp.regexps ELSE <<regexp>>
  IN FoldSeq(LAMBDA a, k :
               LET r == process_seq_for_forming_states({}, alts[k], 0)
                   x == intern_reservs(a.h, r.reservs)
               IN [h |-> x.h, alt_states |-> <<x.result>> \o a.alt_states],
             [h |-> h0, alt_states |-> <<>>],
             SeqOf([k \in 1..Len(alts) |-> Len(alts) + 1 - k]))

RECURSIVE SortedSeq(_)
SortedSeq(S) ==
  IF S = {} THEN <<>>
  ELSE LET m == CHOOSE x \in S : \A y \in S : x <= y
       IN <<m>> \o SortedSeq(S \ {m})

\* states are nodes states[unique_num + 1], so the order of the unique
\* numbers is the order of the nodes
uniq_sort_alt_states(alt_states_list) == SortedSeq(Range(alt_states_list))

alt_states_eq(alt_states_1, alt_states_2) == alt_states_1 = alt_states_2

NewAinsn(decl) ==
  [insn_reserv_decl |-> decl, alt_states |-> <<>>,
   sorted_alt_states |-> <<>>, first_insn_with_same_reservs |-> FALSE,
   next_same_reservs_insn |-> NULL, arc_exists_p |-> FALSE,
   insn_equiv_class_num |-> 0,
   first_ainsn_with_given_equialence_num |-> FALSE]

create_ainsns(insns) == SeqOf([i \in 1..Len(insns) |-> NewAinsn(i)])

is_advance_cycle(insns, ainsn) ==
  insns[ainsn.insn_reserv_decl].name = advance_cycle_insn_decl_name

create_alt_states(h0, insns, ainsns0) ==
  FoldSeq(LAMBDA a, k :
            IF is_advance_cycle(insns, a.ainsns[k]) THEN a
            ELSE LET x == process_alts_for_forming_states(
                            a.h, insns[a.ainsns[k].insn_reserv_decl]
                                   .transformed_regexp)
                 IN [h |-> x.h,
                     ainsns |-> [a.ainsns EXCEPT
                        ![k].alt_states = x.alt_states,
                        ![k].sorted_alt_states =
                           uniq_sort_alt_states(x.alt_states)]],
          [h |-> h0, ainsns |-> ainsns0], SeqOf([k \in 1..Len(ainsns0) |-> k]))

\* acc = [ainsns, first_insns, last_insns]
form_ainsn_with_same_reservs(insns, ainsns0) ==
  FoldSeq(LAMBDA a, k :
            IF is_advance_cycle(insns, a.ainsns[k])
            THEN [a EXCEPT !.ainsns[k].next_same_reservs_insn = NULL,
                           !.ainsns[k].first_insn_with_same_reservs = TRUE]
            ELSE LET found == {i \in 1..Len(a.first_insns) :
                                 alt_states_eq(
                                   a.ainsns[k].sorted_alt_states,
                                   a.ainsns[a.first_insns[i]]
                                     .sorted_alt_states)}
                     i == CHOOSE x \in found : \A y \in found : x <= y
                 IN IF found # {}
                    THEN [a EXCEPT
                            !.ainsns[k].first_insn_with_same_reservs = FALSE,
                            !.ainsns[k].next_same_reservs_insn = NULL,
                            !.ainsns[a.last_insns[i]].next_same_reservs_insn
                               = k,
                            !.last_insns[i] = k]
                    ELSE [a EXCEPT
                            !.ainsns[k].first_insn_with_same_reservs = TRUE,
                            !.ainsns[k].next_same_reservs_insn = NULL,
                            !.first_insns = Append(@, k),
                            !.last_insns = Append(@, k)],
          [ainsns |-> ainsns0, first_insns |-> <<>>, last_insns |-> <<>>],
          SeqOf([k \in 1..Len(ainsns0) |-> k])).ainsns

\* no reservation matters
form_reservs_matter_none(ua, cycles) == {}

form_reservs_matter(ua, cycles) ==
  {b \in (0..(cycles - 1)) \X (0..(Len(ua) - 1)) :
     \/ b[1] >= ua[b[2] + 1].min_occ_cycle_num
     \/ ua[b[2] + 1].query_p
     \/ ua[b[2] + 1].in_set_p}

heap == [states |-> states, free_states |-> free_states,
         state_table |-> state_table, got_free_states |-> got_free_states,
         reservs_matter |-> reservs_matter]

(***************************************************************************)
(* Arcs.  first_out_arc of a state is the sequence of its out arcs, the    *)
(* most recently added first.                                              *)
(***************************************************************************)
find_arc(h, from_state, to_state, insn) ==
  \E k \in 1..Len(h.states[from_state].first_out_arc) :
    /\ h.states[from_state].first_out_arc[k].to_state = to_state
    /\ h.states[from_state].first_out_arc[k].insn = insn

add_arc(h, from_state, to_state, ainsn, state_alts) ==
  IF find_arc(h, from_state, to_state, ainsn) THEN h
  ELSE [h EXCEPT !.states[from_state].first_out_arc =
          <<[to_state |-> to_state, insn |-> ainsn,
             state_alts |-> state_alts]>> \o @]

intersected_state_reservs_p(h, state1, state2) ==
  reserv_sets_are_intersected(units_array, max_cycles_num,
                              h.states[state1].reservs,
                              h.states[state2].reservs)

\* a new state is marked and pushed; acc holds the heap and the stack
push_for_NDFA_forming(acc, state2) ==
  IF acc.h.states[state2].it_was_placed_in_stack_for_NDFA_forming THEN acc
  ELSE [acc EXCEPT
          !.h.states[state2].it_was_placed_in_stack_for_NDFA_forming = TRUE,
          !.state_stack = Append(@, state2)]

\* the body of the loop of make_automaton over the alt states of AINSN
make_automaton_alt(acc, state, ainsn, alt_state) ==
  IF intersected_state_reservs_p(acc.h, state, alt_state)
     \/ (~ndfa_flag /\ acc.added_arc # NULL)
  THEN acc
  ELSE Let(states_union(acc.h, state, alt_state, acc.h.reservs_matter),
           LAMBDA u :
         [push_for_NDFA_forming([acc EXCEPT !.h = u.h], u.result)
            EXCEPT !.h = add_arc(@, state, u.result, ainsn, 1),
                   !.added_arc = u.result])

\* the arc of the first alt state keeps the state_alts given by add_arc
make_automaton_insn_first_alt(acc0, state, ainsn) ==
  LET alts == ainsn_list[ainsn].alt_states
  IN Let(FoldSeq(LAMBDA a, alt : make_automaton_alt(a, state, ainsn, alt),
                 [acc0 EXCEPT !.added_arc = NULL], alts),
         LAMBDA r :
       [r EXCEPT
          !.arc_exists = IF r.added_arc # NULL THEN @ \cup {ainsn} ELSE @])

\* the transitions of STATE by one ainsn other than the cycle advancing
make_automaton_insn(acc0, state, ainsn) ==
  LET alts == ainsn_list[ainsn].alt_states
      ok == {k \in 1..Len(alts) :
               ~intersected_state_reservs_p(acc0.h, state, alts[k])}
  IN Let(FoldSeq(LAMBDA a, alt : make_automaton_alt(a, state, ainsn, alt),
                 [acc0 EXCEPT !.added_arc = NULL], alts),
         LAMBDA r :
     Let(r.h.states[state].first_out_arc, LAMBDA arcs :
       [r EXCEPT
          !.arc_exists = IF r.added_arc # NULL THEN @ \cup {ainsn} ELSE @,
          !.h.states[state].first_out_arc =
             IF ~ndfa_flag /\ r.added_arc # NULL
             THEN SeqOf([k \in 1..Len(arcs) |->
                     IF arcs[k].insn = ainsn /\ arcs[k].to_state = r.added_arc
                     THEN [arcs[k] EXCEPT !.state_alts = Cardinality(ok)]
                     ELSE arcs[k]])
             ELSE arcs]))

\* one iteration of the loop of make_automaton over the stack
make_automaton_state(h0, stack0, state) ==
  LET advance_cycle_ainsn == Len(ainsn_list)
  IN Let(FoldSeq(LAMBDA a, k :
                   IF ainsn_list[k].first_insn_with_same_reservs
                      /\ k # advance_cycle_ainsn
                   THEN make_automaton_insn(a, state, k)
                   ELSE a,
                 [h |-> h0, state_stack |-> stack0, added_arc |-> NULL,
                  arc_exists |-> {}],
                 SeqOf([k \in 1..Len(ainsn_list) |-> k])),
         LAMBDA r :
     Let(state_shift(r.h, state, r.h.reservs_matter), LAMBDA sh :
     Let(push_for_NDFA_forming([r EXCEPT !.h = sh.h], sh.result), LAMBDA p :
       [p EXCEPT !.h = add_arc(@, state, sh.result, advance_cycle_ainsn, 1),
                 !.arc_exists = @ \cup {advance_cycle_ainsn}])))

\* every call of intersected_state_reservs_p for STATE: the reservations
\* of the state, of the alt state and the answer
tried_for_state(h, state) ==
  {[reservs_1 |-> h.states[state].reservs,
    reservs_2 |-> h.states[ainsn_list[k].alt_states[j]].reservs,
    intersected |-> intersected_state_reservs_p(
                      h, state, ainsn_list[k].alt_states[j])] :
     <<k, j>> \in {x \in (1..Len(ainsn_list)) \X (1..4) :
                     /\ ainsn_list[x[1]].first_insn_with_same_reservs
                     /\ x[2] <= Len(ainsn_list[x[1]].alt_states)}}

(***************************************************************************)
(* NDFA -> DFA.                                                            *)
(***************************************************************************)
\* the places in the out arc list of STATE of the arcs marked by INSN, in
\* the order of the list arcs_marked_by_insn: the last arc of the out arc
\* list comes first
\* the loop over the out arcs stops at the first arc marked by INSN
form_first_arc_marked_by_insn(h, state, insn) ==
  LET arcs == h.states[state].first_out_arc
      ks == {k \in 1..Len(arcs) : arcs[k].insn = insn}
  IN IF ks = {} THEN <<>> ELSE <<CHOOSE k \in ks : \A j \in ks : k <= j>>

form_arcs_marked_by_insn(h, state, insn) ==
  LET arcs == h.states[state].first_out_arc
      ks == SelectSeq(SeqOf([k \in 1..Len(arcs) |-> k]),
                      LAMBDA k : arcs[k].insn = insn)
  IN SeqOf([j \in 1..Len(ks) |-> ks[Len(ks) + 1 - j]])

push_for_DFA_forming(acc, state) ==
  IF acc.h.states[state].it_was_placed_in_stack_for_DFA_forming THEN acc
  ELSE [acc EXCEPT
          !.h.states[state].it_was_placed_in_stack_for_DFA_forming = TRUE,
          !.state_stack = Append(@, state)]

\* the out arcs of the first component only are copied
copy_component_arcs_of_first(h0, state) ==
  FoldSeq(LAMBDA h2, arc : add_arc(h2, state, arc.to_state, arc.insn, 1),
          h0, h0.states[h0.states[state].component_states[1]].first_out_arc)

\* the out arcs of the components are copied to the new composed STATE
copy_component_arcs(h0, state) ==
  FoldSeq(LAMBDA h1, comp :
            FoldSeq(LAMBDA h2, arc :
                      add_arc(h2, state, arc.to_state, arc.insn, 1),
                    h1, h1.states[comp].first_out_arc),
          h0, h0.states[state].component_states)

\* acc = [h, state_stack]
create_composed_state(acc, original_state, insn) ==
  LET marked == form_arcs_marked_by_insn(acc.h, original_state, insn)
      arcs == acc.h.states[original_state].first_out_arc
      f == get_free_state(acc.h, FALSE)
      comps == UNION {IF acc.h.states[arcs[k].to_state].component_states
                         = <<>>
                      THEN {arcs[k].to_state}
                      ELSE Range(acc.h.states[arcs[k].to_state]
                                   .component_states) :
                      k \in Range(marked)}
      canonical_alt_states_list == SortedSeq(comps)
      h1 == [f.h EXCEPT !.states[f.result].component_states =
                           canonical_alt_states_list]
      ins == insert_state(h1, f.result)
      state == ins.result
      h2 == IF state # f.result THEN free_state(ins.h, f.result)
            ELSE copy_component_arcs(ins.h, state)
      arcs2 == h2.states[original_state].first_out_arc
      \* the first marked arc enters the composed state, the others go
      kept == SelectSeq(SeqOf([k \in 1..Len(arcs2) |-> k]),
                        LAMBDA k : k = marked[1] \/ k \notin Range(marked))
      h3 == [h2 EXCEPT !.states[original_state].first_out_arc =
               SeqOf([j \in 1..Len(kept) |->
                  IF kept[j] = marked[1]
                  THEN [arcs2[kept[j]] EXCEPT
                          !.to_state = state,
                          !.state_alts = Len(marked) - 1]
                  ELSE arcs2[kept[j]]])]
  IN IF marked = <<>> THEN acc
     ELSE IF Len(marked) = 1
     THEN push_for_DFA_forming(acc, arcs[marked[1]].to_state)
     ELSE IF Len(canonical_alt_states_list) = 1
     THEN push_for_DFA_forming([acc EXCEPT !.h = free_state(f.h, f.result)],
                               canonical_alt_states_list[1])
     ELSE push_for_DFA_forming([acc EXCEPT !.h = h3], state)

\* one iteration of the loop of NDFA_to_DFA over the stack
NDFA_to_DFA_state(h0, stack0, state) ==
  FoldSeq(LAMBDA a, k : create_composed_state(a, state, k),
          [h |-> h0, state_stack |-> stack0],
          SeqOf([k \in 1..Len(insn_decls) |-> k]))

(***************************************************************************)
(* Minimization of the DFA.                                                *)
(***************************************************************************)
\* the states achieved from START_STATE in the order applied_func is
\* called for them
RECURSIVE pass_state_graph(_, _, _)
pass_state_graph(h, passed, start_state_) ==
  IF \E k \in 1..Len(passed) : passed[k] = start_state_ THEN passed
  ELSE FoldSeq(LAMBDA p, arc : pass_state_graph(h, p, arc.to_state),
               Append(passed, start_state_),
               h.states[start_state_].first_out_arc)

pass_states(h, start_state_) == pass_state_graph(h, <<>>, start_state_)

equiv_class_num(h, state, odd_iteration_flag_) ==
  IF odd_iteration_flag_ THEN h.states[state].equiv_class_num_1
  ELSE h.states[state].equiv_class_num_2

\* equiv_class_num and state_alts of the insn_reserv_decl of every insn
\* after the out arcs of STATE were passed, and the number of the arcs
set_out_arc_insns_equiv_num(h, state, odd_iteration_flag_) ==
  LET arcs == h.states[state].first_out_arc
      arc_of(insn) == CHOOSE k \in 1..Len(arcs) : arcs[k].insn = insn
      marked == {arcs[k].insn : k \in 1..Len(arcs)}
  IN [state_out_arcs_num |-> Len(arcs),
      equiv_class_num |->
        SeqOf([insn \in 1..Len(insn_decls) |->
           IF insn \in marked
           THEN equiv_class_num(h, arcs[arc_of(insn)].to_state,
                                odd_iteration_flag_)
           ELSE 0]),
      state_alts |->
        SeqOf([insn \in 1..Len(insn_decls) |->
           IF insn \in marked THEN arcs[arc_of(insn)].state_alts ELSE 0])]

first_cycle_unit_presence(h, state, unit_num) ==
  IF h.states[state].component_states = <<>>
  THEN test_unit_reserv(h.states[state].reservs, 0, unit_num)
  ELSE test_unit_reserv(
         h.states[h.states[state].component_states[1]].reservs, 0, unit_num)

\* the states are compared by their out arcs only
state_is_differed_by_arcs(h, state, another_state, marks, odd_iteration_flag_) ==
  LET arcs == h.states[state].first_out_arc
  IN \/ \E k \in 1..Len(arcs) :
          \/ equiv_class_num(h, arcs[k].to_state, odd_iteration_flag_)
             # marks.equiv_class_num[arcs[k].insn]
          \/ marks.state_alts[arcs[k].insn] # arcs[k].state_alts
     \/ Len(arcs) # marks.state_out_arcs_num

\* every two states are found different
state_is_differed_always(h, state, another_state, marks, odd_iteration_flag_) == TRUE

state_is_differed(h, state, another_state, marks, odd_iteration_flag_) ==
  LET arcs == h.states[state].first_out_arc
  IN \/ \E k \in 1..Len(arcs) :
          \/ equiv_class_num(h, arcs[k].to_state, odd_iteration_flag_)
             # marks.equiv_class_num[arcs[k].insn]
          \/ marks.state_alts[arcs[k].insn] # arcs[k].state_alts
     \/ Len(arcs) # marks.state_out_arcs_num
     \/ \E i \in 0..(Len(units_array) - 1) :
          /\ units_array[i + 1].query_p
          /\ first_cycle_unit_presence(h, state, i)
             # first_cycle_unit_presence(h, another_state, i)

\* the states of the list in the order of next_equiv_class_state
init_equiv_class(achieved) ==
  SeqOf([k \in 1..Len(achieved) |-> achieved[Len(achieved) + 1 - k]])

\* The class and the classes split off it, in the order they are added to
\* next_iteration_classes; acc = [h, classes, new_equiv_class_num]
RECURSIVE partition_equiv_class(_, _, _)
partition_equiv_class(acc, class, odd_iteration_flag_) ==
  LET first_state == class[1]
      marks == set_out_arc_insns_equiv_num(acc.h, first_state,
                                           odd_iteration_flag_)
      differed(st) == state_is_differed(acc.h, st, first_state, marks,
                                        odd_iteration_flag_)
      rest == SubSeq(class, 2, Len(class))
      kept == <<first_state>> \o SelectSeq(rest, LAMBDA st : ~differed(st))
      removed == SelectSeq(rest, differed)
      new_equiv_class == SeqOf([k \in 1..Len(removed) |->
                            removed[Len(removed) + 1 - k]])
      num == acc.new_equiv_class_num + 1
      h1 == [acc.h EXCEPT !.states =
               SeqOf([st \in 1..Len(@) |->
                  IF st \in Range(removed)
                  THEN IF odd_iteration_flag_
                       THEN [@[st] EXCEPT !.equiv_class_num_2 = num]
                       ELSE [@[st] EXCEPT !.equiv_class_num_1 = num]
                  ELSE @[st]])]
  IN IF Len(class) = 1 \/ removed = <<>>
     THEN [acc EXCEPT !.classes = Append(@, class)]
     ELSE partition_equiv_class(
            [h |-> h1, classes |-> Append(acc.classes, kept),
             new_equiv_class_num |-> num],
            new_equiv_class, odd_iteration_flag_)

\* one iteration of the loop of evaluate_equiv_classes: the heap, the
\* lists of next_iteration_classes and the class counter afterwards
evaluate_equiv_classes_iteration(h0, achieved, classes0, num0, odd) ==
  LET h1 == [h0 EXCEPT !.states =
               SeqOf([st \in 1..Len(@) |->
                  IF st \in Range(achieved)
                  THEN IF odd
                       THEN [@[st] EXCEPT !.equiv_class_num_2 =
                               h0.states[st].equiv_class_num_1]
                       ELSE [@[st] EXCEPT !.equiv_class_num_1 =
                               h0.states[st].equiv_class_num_2]
                  ELSE @[st]])]
      \* r.old holds the classes of this iteration after their partition,
      \* r.new the classes split off them
  IN Let(FoldSeq(LAMBDA a, class :
                   Let(partition_equiv_class(
                         [h |-> a.h, classes |-> <<>>,
                          new_equiv_class_num |-> a.new_equiv_class_num],
                         class, odd),
                       LAMBDA x :
                         [h |-> x.h,
                          old |-> Append(a.old, x.classes[1]),
                          new |-> a.new \o Tail(x.classes),
                          new_equiv_class_num |-> x.new_equiv_class_num]),
                 [h |-> h1, old |-> <<>>, new |-> <<>>,
                  new_equiv_class_num |-> num0], classes0),
         LAMBDA r :
           [h |-> r.h, classes |-> r.old \o r.new,
            new_equiv_class_num |-> r.new_equiv_class_num,
            finish_flag |-> r.new = <<>>])

\* the components of the states of CLASS but its first state
class_component_states_but_first(h, class) ==
  UNION {IF h.states[class[k]].component_states = <<>> THEN {class[k]}
         ELSE Range(h.states[class[k]].component_states) :
           k \in 2..Len(class)}

\* the states of CLASS or, for a composed state, its components
class_component_states(h, class) ==
  UNION {IF h.states[st].component_states = <<>> THEN {st}
         ELSE Range(h.states[st].component_states) : st \in Range(class)}

\* acc = [h, start_state]; the freed out arcs of the merged states are gone
merge_states(h0, classes, start_state_) ==
  LET created ==
        FoldSeq(LAMBDA h, class :
                  IF Len(class) > 1
                  THEN LET f == get_free_state(h, FALSE)
                           comps == SortedSeq(class_component_states(f.h,
                                                                     class))
                       IN [f.h EXCEPT !.states =
                             SeqOf([st \in 1..Len(f.h.states) |->
                                IF st \in Range(class)
                                THEN [f.h.states[st] EXCEPT
                                        !.equiv_class_state = f.result]
                                ELSE IF st = f.result
                                THEN [f.h.states[st] EXCEPT
                                        !.component_states = comps]
                                ELSE f.h.states[st]])]
                  ELSE [h EXCEPT !.states[class[1]].equiv_class_state =
                                    class[1]],
                h0, classes)
  IN FoldSeq(LAMBDA a, class :
               LET first_class_state == class[1]
                   arcs == a.h.states[first_class_state].first_out_arc
                   new_state == a.h.states[first_class_state]
                                  .equiv_class_state
                   h1 == FoldSeq(LAMBDA h, curr_arc :
                                   add_arc(h, new_state,
                                           h.states[curr_arc.to_state]
                                             .equiv_class_state,
                                           curr_arc.insn,
                                           curr_arc.state_alts),
                                 a.h, arcs)
               IN IF Len(class) > 1
                  THEN [h |-> [h1 EXCEPT !.states =
                                 SeqOf([st \in 1..Len(h1.states) |->
                                    IF st \in Range(class)
                                    THEN [h1.states[st] EXCEPT
                                            !.first_out_arc = <<>>]
                                    ELSE h1.states[st]])],
                        start_state |->
                          IF a.start_state \in Range(class) THEN new_state
                          ELSE a.start_state]
                  ELSE [a EXCEPT !.h.states[first_class_state].first_out_arc =
                          SeqOf([k \in 1..Len(arcs) |->
                             [arcs[k] EXCEPT !.to_state =
                                a.h.states[arcs[k].to_state]
                                  .equiv_class_state]])],
             [h |-> created, start_state |-> start_state_], classes)

\* set_order_state_num for the states in the order pass_states meets them
enumerate_states_(h, start_state_) ==
  LET achieved == pass_states(h, start_state_)
  IN [h EXCEPT !.states =
        SeqOf([st \in 1..Len(h.states) |->
           IF st \in Range(achieved)
           THEN [h.states[st] EXCEPT !.order_state_num =
                   (CHOOSE k \in 1..Len(achieved) : achieved[k] = st) - 1]
           ELSE h.states[st]])]

\* minimize_DFA begins: pass_states (add_achieved_state), init_equiv_class
evaluate_equiv_classes_start ==
  /\ pc = "NDFA_to_DFA"
  /\ state_stack = <<>>
  /\ ~no_minimization_flag
  /\ \E all_achieved_states \in {pass_states(heap, start_state)} :
        /\ states' = SeqOf([st \in 1..Len(states) |->
                        IF st \in Range(all_achieved_states)
                        THEN [states[st] EXCEPT !.equiv_class_num_1 = 1]
                        ELSE states[st]])
        /\ next_iteration_classes' =
             <<init_equiv_class(all_achieved_states)>>
  /\ odd_iteration_flag' = FALSE
  /\ new_equiv_class_num' = 1
  /\ dfa_start' = start_state
  /\ dfa_arcs' = SeqOf([k \in 1..Len(states) |-> states[k].first_out_arc])
  /\ pc' = "evaluate_equiv_classes"
  /\ UNCHANGED <<description, units_array, insn_decls, have_error, ndfa_flag,
                 no_minimization_flag, max_cycles_num, free_states,
                 state_table, ainsn_list, start_state, state_stack,
                 reservs_matter, tried, ndfa_arcs, equiv_classes,
                 achieved_states_num, insn_equiv_classes_num, trans_table,
                 state_alts_table, output_states_vect,
                 max_dfa_issue_rate, min_issue_delay_vect,
                 reserved_units_table,
                 reserv_decls, reported_cycles,
                 got_free_states, w_flag,
                 transformed_insns_num, regexp_transformed_p,
                 max_min_delay, min_issue_delay_table_compression_factor,
                 compressed_min_issue_delay_vect>>

\* one iteration of the do-while loop of evaluate_equiv_classes
evaluate_equiv_classes_step ==
  /\ pc = "evaluate_equiv_classes"
  /\ \E r \in {evaluate_equiv_classes_iteration(
                   heap, pass_states(heap, start_state),
                   next_iteration_classes, new_equiv_class_num,
                   ~odd_iteration_flag)} :
        /\ odd_iteration_flag' = ~odd_iteration_flag
        /\ equiv_classes' = next_iteration_classes
        /\ states' = r.h.states
        /\ next_iteration_classes' = r.classes
        /\ new_equiv_class_num' = r.new_equiv_class_num
        /\ pc' = IF r.finish_flag THEN "merge_states"
                 ELSE "evaluate_equiv_classes"
  /\ UNCHANGED <<description, units_array, insn_decls, have_error, ndfa_flag,
                 no_minimization_flag, max_cycles_num, free_states,
                 state_table, ainsn_list, start_state, state_stack,
                 reservs_matter, tried, ndfa_arcs, dfa_start, dfa_arcs,
                 achieved_states_num, insn_equiv_classes_num, trans_table,
                 state_alts_table, output_states_vect,
                 max_dfa_issue_rate, min_issue_delay_vect,
                 reserved_units_table,
                 reserv_decls, reported_cycles,
                 got_free_states, w_flag,
                 transformed_insns_num, regexp_transformed_p,
                 max_min_delay, min_issue_delay_table_compression_factor,
                 compressed_min_issue_delay_vect>>

merge_states_step ==
  /\ pc = "merge_states"
  /\ \E r \in {merge_states(heap, equiv_classes, start_state)} :
        /\ states' = r.h.states
        /\ free_states' = r.h.free_states
        /\ got_free_states' = r.h.got_free_states
        /\ start_state' = r.start_state
  /\ pc' = "enumerate_states"
  /\ UNCHANGED <<description, units_array, insn_decls, have_error, ndfa_flag,
                 no_minimization_flag, max_cycles_num, state_table,
                 ainsn_list, state_stack, reservs_matter, tried, ndfa_arcs,
                 dfa_start, dfa_arcs, equiv_classes, next_iteration_classes,
                 new_equiv_class_num, odd_iteration_flag,
                 achieved_states_num, insn_equiv_classes_num, trans_table,
                 state_alts_table, output_states_vect,
                 max_dfa_issue_rate, min_issue_delay_vect,
                 reserved_units_table,
                 reserv_decls, reported_cycles, w_flag,
                 transformed_insns_num, regexp_transformed_p,
                 max_min_delay, min_issue_delay_table_compression_factor,
                 compressed_min_issue_delay_vect>>

\* build_automaton has ended, with or without minimize_DFA
enumerate_states ==
  /\ \/ pc = "enumerate_states"
     \/ pc = "NDFA_to_DFA" /\ state_stack = <<>> /\ no_minimization_flag
  /\ states' = enumerate_states_(heap, start_state).states
  /\ achieved_states_num' = Len(pass_states(heap, start_state))
  /\ pc' = "set_insn_equiv_classes"
  /\ UNCHANGED <<description, units_array, insn_decls, have_error, ndfa_flag,
                 no_minimization_flag, max_cycles_num, free_states,
                 state_table, ainsn_list, start_state, state_stack,
                 reservs_matter, tried, ndfa_arcs, dfa_start, dfa_arcs,
                 equiv_classes, next_iteration_classes, new_equiv_class_num,
                 odd_iteration_flag, insn_equiv_classes_num, trans_table,
                 state_alts_table, output_states_vect,
                 max_dfa_issue_rate, min_issue_delay_vect,
                 reserved_units_table,
                 reserv_decls, reported_cycles,
                 got_free_states, w_flag,
                 transformed_insns_num, regexp_transformed_p,
                 max_min_delay, min_issue_delay_table_compression_factor,
                 compressed_min_issue_delay_vect>>

(***************************************************************************)
(* Equivalence classes of ainsns.  The cyclic list next_equiv_class_insn   *)
(* of a class is the set of its ainsns.                                    *)
(***************************************************************************)
\* code of insn -> the place in the out arc list of STATE of the arc
\* written last, or NULL
insn_arcs_array(h, state) ==
  LET arcs == h.states[state].first_out_arc
  IN SeqOf([insn \in 1..Len(insn_decls) |->
              LET ks == {k \in 1..Len(arcs) : arcs[k].insn = insn}
              IN IF ks = {} THEN NULL
                 ELSE CHOOSE k \in ks : \A j \in ks : j <= k])

\* every other ainsn of the class of AINSN leaves it for a class of its own
process_insn_equiv_class_alone(classes, ainsn, arcs, arcs_array) ==
  LET class == CHOOSE c \in classes : ainsn \in c
  IN (classes \ {class}) \cup {{curr_insn} : curr_insn \in class}

\* the ainsns not equivalent to AINSN leave its class for a new class
process_insn_equiv_class(classes, ainsn, arcs, arcs_array) ==
  LET class == CHOOSE c \in classes : ainsn \in c
      removed == {curr_insn \in class :
                    \/ arcs_array[curr_insn] = NULL
                    \/ arcs[arcs_array[ainsn]].to_state
                       # arcs[arcs_array[curr_insn]].to_state}
  IN IF removed = {} THEN classes
     ELSE (classes \ {class}) \cup {class \ removed, removed}

process_state_for_insn_equiv_partition(h, classes, state) ==
  FoldSeq(LAMBDA cs, arc :
            process_insn_equiv_class(cs, arc.insn,
                                     h.states[state].first_out_arc,
                                     insn_arcs_array(h, state)),
          classes, h.states[state].first_out_arc)

\* acc = [ainsns, equiv_classes_num]: the classes are enumerated in the
\* order of ainsn_list
enumerate_insn_equiv_class(classes, acc, ainsn) ==
  IF acc.ainsns[ainsn].insn_equiv_class_num >= 0 THEN acc
  ELSE LET class == CHOOSE c \in classes : ainsn \in c
           same_reservs ==
             {i \in 1..Len(acc.ainsns) :
                \E curr_insn \in class :
                  \/ i = curr_insn
                  \/ /\ ~acc.ainsns[i].first_insn_with_same_reservs
                     /\ acc.ainsns[i].sorted_alt_states
                        = acc.ainsns[curr_insn].sorted_alt_states}
       IN [ainsns |->
             SeqOf([i \in 1..Len(acc.ainsns) |->
                      [acc.ainsns[i] EXCEPT
                         !.first_ainsn_with_given_equialence_num =
                            IF i = ainsn THEN TRUE ELSE @,
                         !.insn_equiv_class_num =
                            IF i \in same_reservs THEN acc.equiv_classes_num
                            ELSE @]]),
           equiv_classes_num |-> acc.equiv_classes_num + 1]

set_insn_equiv_classes(h, start_state_, ainsns) ==
  LET all == {i \in 1..Len(ainsns) : ainsns[i].first_insn_with_same_reservs}
      classes == FoldSeq(LAMBDA cs, state :
                           process_state_for_insn_equiv_partition(h, cs,
                                                                  state),
                         {all}, pass_states(h, start_state_))
      undefined == SeqOf([i \in 1..Len(ainsns) |->
                            [ainsns[i] EXCEPT !.insn_equiv_class_num = -1]])
  IN FoldSeq(LAMBDA acc, ainsn :
               enumerate_insn_equiv_class(classes, acc, ainsn),
             [ainsns |-> undefined, equiv_classes_num |-> 0],
             SeqOf([i \in 1..Len(ainsns) |-> i]))

set_insn_equiv_classes_step ==
  /\ pc = "set_insn_equiv_classes"
  /\ \E r \in {set_insn_equiv_classes(heap, start_state, ainsn_list)} :
        /\ ainsn_list' = r.ainsns
        /\ insn_equiv_classes_num' = r.equiv_classes_num
  /\ pc' = "check_automata_insn_issues"
  /\ UNCHANGED <<description, units_array, insn_decls, have_error, ndfa_flag,
                 no_minimization_flag, max_cycles_num, states, free_states,
                 state_table, start_state, state_stack, reservs_matter,
                 tried, ndfa_arcs, dfa_start, dfa_arcs, equiv_classes,
                 next_iteration_classes, new_equiv_class_num,
                 odd_iteration_flag, achieved_states_num, trans_table,
                 state_alts_table, output_states_vect,
                 max_dfa_issue_rate, min_issue_delay_vect,
                 reserved_units_table,
                 reserv_decls, reported_cycles,
                 got_free_states, w_flag,
                 transformed_insns_num, regexp_transformed_p,
                 max_min_delay, min_issue_delay_table_compression_factor,
                 compressed_min_issue_delay_vect>>

\* check_automata_insn_issues which only warns about an insn which is never
\* issued
check_automata_insn_issues_warning ==
  /\ pc = "check_automata_insn_issues"
  /\ pc' = IF have_error THEN "done" ELSE "output_dfa_max_issue_rate"
  /\ UNCHANGED <<description, units_array, insn_decls, have_error, ndfa_flag,
                 no_minimization_flag, max_cycles_num, states, free_states,
                 state_table, ainsn_list, start_state, state_stack,
                 reservs_matter, tried, ndfa_arcs, dfa_start, dfa_arcs,
                 equiv_classes, next_iteration_classes, new_equiv_class_num,
                 odd_iteration_flag, achieved_states_num,
                 insn_equiv_classes_num, trans_table, state_alts_table,
                 output_states_vect,
                 max_dfa_issue_rate, min_issue_delay_vect,
                 reserved_units_table,
                 reserv_decls, reported_cycles,
                 got_free_states, w_flag,
                 transformed_insns_num, regexp_transformed_p,
                 max_min_delay, min_issue_delay_table_compression_factor,
                 compressed_min_issue_delay_vect>>

\* an insn which is never issued is an error without -w
check_automata_insn_issues ==
  /\ pc = "check_automata_insn_issues"
  /\ have_error' =
       (\/ have_error
        \/ /\ ~w_flag
           /\ \E i \in 1..Len(ainsn_list) :
                /\ ainsn_list[i].first_insn_with_same_reservs
                /\ ~ainsn_list[i].arc_exists_p)
  /\ pc' = IF have_error' THEN "done" ELSE "output_dfa_max_issue_rate"
  /\ UNCHANGED <<description, units_array, insn_decls, ndfa_flag,
                 no_minimization_flag, max_cycles_num, states, free_states,
                 state_table, ainsn_list, start_state, state_stack,
                 reservs_matter, tried, ndfa_arcs, dfa_start, dfa_arcs,
                 equiv_classes, next_iteration_classes, new_equiv_class_num,
                 odd_iteration_flag, achieved_states_num,
                 insn_equiv_classes_num, trans_table, state_alts_table,
                 output_states_vect,
                 max_dfa_issue_rate, min_issue_delay_vect,
                 reserved_units_table,
                 reserv_decls, reported_cycles,
                 got_free_states, w_flag,
                 transformed_insns_num, regexp_transformed_p,
                 max_min_delay, min_issue_delay_table_compression_factor,
                 compressed_min_issue_delay_vect>>

(***************************************************************************)
(* Tables state x ainsn -> something: the full vector and the comb, check  *)
(* and base vectors.  Element i of a C vector is element i + 1 here.       *)
(***************************************************************************)
\* the C type written by output_range_type
output_range_type(min_range_value, max_range_value) ==
  IF min_range_value >= 0 /\ max_range_value <= 255 THEN "unsigned char"
  ELSE IF min_range_value >= -127 /\ max_range_value <= 127
  THEN "signed char"
  ELSE IF min_range_value >= 0 /\ max_range_value <= 65535
  THEN "unsigned short"
  ELSE IF min_range_value >= -32767 /\ max_range_value <= 32767 THEN "short"
  ELSE "int"

\* the value of an object of the C type TYPE initialized by VALUE (chars of
\* 8 bits, shorts of 16 bits, ints of 32 bits, two's complement)
range_type_value(type, value) ==
  IF type = "unsigned char" THEN value % 256
  ELSE IF type = "signed char" THEN ((value + 128) % 256) - 128
  ELSE IF type = "unsigned short" THEN value % 65536
  ELSE IF type = "short" THEN ((value + 32768) % 65536) - 32768
  ELSE value

comb_vect_p(tab) == 2 * Len(tab.full_vect) > 5 * Len(tab.comb_vect)

create_state_ainsn_table(undefined_vect_el_value) ==
  [full_vect |-> SeqOf([i \in 1..(insn_equiv_classes_num
                                  * achieved_states_num) |->
                          undefined_vect_el_value]),
   comb_vect |-> <<>>, check_vect |-> <<>>,
   base_vect |-> SeqOf([i \in 1..achieved_states_num |-> 0]),
   min_comb_vect_el_value |-> 0, max_comb_vect_el_value |-> 0]

\* the place is looked for by the first element of VECT only
add_vect_place_by_first_el(tab, vect, undefined_vect_el_value) ==
  LET comb_vect_els_num == Len(tab.comb_vect)
      places == {c \in 0..(comb_vect_els_num - 1) :
                   \/ vect = <<>>
                   \/ vect[1] = undefined_vect_el_value
                   \/ tab.comb_vect[c + 1] = undefined_vect_el_value}
  IN IF places = {} THEN comb_vect_els_num
     ELSE CHOOSE c \in places : \A d \in places : c <= d

\* the least place of the comb vector where no defined element of VECT
\* meets a defined element of the comb vector, or the end of the comb vector
add_vect_place(tab, vect, undefined_vect_el_value) ==
  LET comb_vect_els_num == Len(tab.comb_vect)
      free(comb_vect_index) ==
        \A vect_index \in 0..(Len(vect) - 1) :
          \/ vect_index + comb_vect_index >= comb_vect_els_num
          \/ vect[vect_index + 1] = undefined_vect_el_value
          \/ tab.comb_vect[vect_index + comb_vect_index + 1]
             = undefined_vect_el_value
      places == {c \in 0..(comb_vect_els_num - 1) : free(c)}
  IN IF places = {} THEN comb_vect_els_num
     ELSE CHOOSE c \in places : \A d \in places : c <= d

add_vect(tab, vect_num, vect, undefined_vect_el_value) ==
  LET real_vect_length == insn_equiv_classes_num
      comb_vect_index == add_vect_place(tab, vect, undefined_vect_el_value)
      additional_els_num ==
        Max(comb_vect_index + real_vect_length - Len(tab.comb_vect), 0)
      no_state_value == achieved_states_num
      filled(i) == /\ i - comb_vect_index \in 1..Len(vect)
                   /\ vect[i - comb_vect_index] # undefined_vect_el_value
      comb == tab.comb_vect
              \o SeqOf([i \in 1..additional_els_num |->
                          undefined_vect_el_value])
      check == tab.check_vect
               \o SeqOf([i \in 1..additional_els_num |-> no_state_value])
  IN [full_vect |->
        SeqOf([i \in 1..Len(tab.full_vect) |->
                 IF i - insn_equiv_classes_num * vect_num \in 1..Len(vect)
                 THEN vect[i - insn_equiv_classes_num * vect_num]
                 ELSE tab.full_vect[i]]),
      comb_vect |-> SeqOf([i \in 1..Len(comb) |->
                             IF filled(i) THEN vect[i - comb_vect_index]
                             ELSE comb[i]]),
      check_vect |-> SeqOf([i \in 1..Len(check) |->
                              IF filled(i) THEN vect_num ELSE check[i]]),
      base_vect |-> [tab.base_vect EXCEPT ![vect_num + 1] = comb_vect_index],
      min_comb_vect_el_value |->
        FoldSeq(LAMBDA m, el :
                  IF el # undefined_vect_el_value /\ m > el THEN el ELSE m,
                tab.min_comb_vect_el_value, vect),
      max_comb_vect_el_value |->
        FoldSeq(LAMBDA m, el :
                  IF el # undefined_vect_el_value /\ m < el THEN el ELSE m,
                tab.max_comb_vect_el_value, vect)]

out_state_arcs_num(state) ==
  Cardinality({k \in 1..Len(states[state].first_out_arc) :
                 ainsn_list[states[state].first_out_arc[k].insn]
                   .first_ainsn_with_given_equialence_num})

\* add_vect_el that leaves the element of the class undefined
add_vect_el_undefined(vect, ainsn, el_value, undefined_vect_el_value) ==
  LET vect_index == ainsn_list[ainsn].insn_equiv_class_num
  IN vect \o SeqOf([i \in 1..(vect_index + 1 - Len(vect))
                      |-> undefined_vect_el_value])

add_vect_el(vect, ainsn, el_value, undefined_vect_el_value) ==
  LET vect_index == ainsn_list[ainsn].insn_equiv_class_num
      expanded == vect \o SeqOf([i \in 1..(vect_index + 1 - Len(vect))
                                   |-> undefined_vect_el_value])
  IN [expanded EXCEPT ![vect_index + 1] = el_value]

\* pass_states (add_states_vect_el) and qsort by compare_transition_els_num:
\* the states with the maximum number of transitions come first; qsort does
\* not fix the order of the states with equal numbers, which is the order
\* of pass_states or, with REVERSED, its reverse
sorted_output_states_vect(reversed) ==
  LET passed == pass_states(heap, start_state)
      vect == IF reversed
              THEN SeqOf([k \in 1..Len(passed) |->
                            passed[Len(passed) + 1 - k]])
              ELSE passed
      nums == SeqOf([k \in 1..(Len(insn_decls) + 1) |->
                       Len(insn_decls) + 1 - k])
  IN FoldSeq(LAMBDA sorted, n :
               sorted \o SelectSeq(vect,
                                   LAMBDA st : out_state_arcs_num(st) = n),
             <<>>, nums)

\* the vector of STATE: el_of_arc gives the element of an out arc
state_vect(state, el_of_arc(_), undefined_vect_el_value) ==
  FoldSeq(LAMBDA vect, arc :
            IF ainsn_list[arc.insn].first_ainsn_with_given_equialence_num
            THEN add_vect_el(vect, arc.insn, el_of_arc(arc),
                             undefined_vect_el_value)
            ELSE vect,
          <<>>, states[state].first_out_arc)

output_trans_table ==
  /\ pc = "output_tables"
  /\ \E reversed \in BOOLEAN :
       \E vect \in {sorted_output_states_vect(reversed)} :
       LET undefined_vect_el_value == achieved_states_num
       IN /\ output_states_vect' = vect
          /\ trans_table' =
               FoldSeq(LAMBDA tab, st :
                         add_vect(tab, states[st].order_state_num,
                                  state_vect(st,
                                    LAMBDA arc : states[arc.to_state]
                                                   .order_state_num,
                                    undefined_vect_el_value),
                                  undefined_vect_el_value),
                       create_state_ainsn_table(undefined_vect_el_value),
                       vect)
  /\ pc' = "output_state_alts_table"
  /\ UNCHANGED <<description, units_array, insn_decls, have_error, ndfa_flag,
                 no_minimization_flag, max_cycles_num, states, free_states,
                 state_table, ainsn_list, start_state, state_stack,
                 reservs_matter, tried, ndfa_arcs, dfa_start, dfa_arcs,
                 equiv_classes, next_iteration_classes, new_equiv_class_num,
                 odd_iteration_flag, achieved_states_num,
                 insn_equiv_classes_num, state_alts_table,
                 max_dfa_issue_rate, min_issue_delay_vect,
                 reserved_units_table,
                 reserv_decls, reported_cycles,
                 got_free_states, w_flag,
                 transformed_insns_num, regexp_transformed_p,
                 max_min_delay, min_issue_delay_table_compression_factor,
                 compressed_min_issue_delay_vect>>

output_state_alts_table ==
  /\ pc = "output_state_alts_table"
  /\ \E reversed \in BOOLEAN :
       \E vect \in {sorted_output_states_vect(reversed)} :
       LET undefined_vect_el_value == 0
       IN /\ output_states_vect' = vect
          /\ state_alts_table' =
               FoldSeq(LAMBDA tab, st :
                         add_vect(tab, states[st].order_state_num,
                                  state_vect(st, LAMBDA arc : arc.state_alts,
                                             undefined_vect_el_value),
                                  undefined_vect_el_value),
                       create_state_ainsn_table(undefined_vect_el_value),
                       vect)
  /\ pc' = "output_min_issue_delay_table"
  /\ UNCHANGED <<description, units_array, insn_decls, have_error, ndfa_flag,
                 no_minimization_flag, max_cycles_num, states, free_states,
                 state_table, ainsn_list, start_state, state_stack,
                 reservs_matter, tried, ndfa_arcs, dfa_start, dfa_arcs,
                 equiv_classes, next_iteration_classes, new_equiv_class_num,
                 odd_iteration_flag, achieved_states_num,
                 insn_equiv_classes_num, trans_table,
                 max_dfa_issue_rate, min_issue_delay_vect,
                 reserved_units_table,
                 reserv_decls, reported_cycles,
                 got_free_states, w_flag,
                 transformed_insns_num, regexp_transformed_p,
                 max_min_delay, min_issue_delay_table_compression_factor,
                 compressed_min_issue_delay_vect>>

\* the code of internal_state_transition with the comb vector: the new
\* state, or achieved_states_num when the insn can not be issued
comb_vect_transition(tab, state, insn_equiv_class) ==
  LET temp == tab.base_vect[state + 1] + insn_equiv_class
  IN IF tab.check_vect[temp + 1] # state THEN achieved_states_num
     ELSE tab.comb_vect[temp + 1]

\* the code of internal_state_transition with the full vector
full_vect_transition(tab, state, insn_equiv_class) ==
  LET temp == range_type_value(
                output_range_type(tab.min_comb_vect_el_value,
                                  tab.max_comb_vect_el_value),
                tab.full_vect[insn_equiv_class
                              + state * insn_equiv_classes_num + 1])
  IN IF temp >= achieved_states_num THEN achieved_states_num ELSE temp

output_automata_list_transition_code(tab, state, insn_equiv_class) ==
  IF comb_vect_p(tab)
  THEN comb_vect_transition(tab, state, insn_equiv_class)
  ELSE full_vect_transition(tab, state, insn_equiv_class)

\* the code of internal_state_alts with the comb vector
comb_vect_state_alts(tab, state, insn_equiv_class) ==
  LET temp == tab.base_vect[state + 1] + insn_equiv_class
  IN IF tab.check_vect[temp + 1] # state THEN 0
     ELSE tab.comb_vect[temp + 1]

\* the code of internal_state_alts with the full vector
full_vect_state_alts(tab, state, insn_equiv_class) ==
  range_type_value(
    output_range_type(tab.min_comb_vect_el_value,
                      tab.max_comb_vect_el_value),
    tab.full_vect[insn_equiv_class + state * insn_equiv_classes_num + 1])

output_automata_list_state_alts_code(tab, state, insn_equiv_class) ==
  IF comb_vect_p(tab)
  THEN comb_vect_state_alts(tab, state, insn_equiv_class)
  ELSE full_vect_state_alts(tab, state, insn_equiv_class)

(***************************************************************************)
(* max_dfa_issue_rate.  The member longest_path_length of the states is    *)
(* used by longest_path_length only: LENS is state -> the member.          *)
(***************************************************************************)
UNDEFINED_LONGEST_PATH_LENGTH == -1

\* acc = [lens, result]
RECURSIVE longest_path_length(_, _, _)
longest_path_length(h, lens, state) ==
  IF lens[state] # UNDEFINED_LONGEST_PATH_LENGTH
  THEN [lens |-> lens, result |-> lens[state]]
  ELSE Let(FoldSeq(LAMBDA a, arc :
                     IF arc.to_state # state /\ arc.insn # Len(ainsn_list)
                     THEN Let(longest_path_length(h, a.lens, arc.to_state),
                              LAMBDA r : [lens |-> r.lens,
                                          result |-> Max(a.result, r.result)])
                     ELSE a,
                   [lens |-> lens, result |-> 0],
                   h.states[state].first_out_arc),
           LAMBDA r : [lens |-> [r.lens EXCEPT ![state] = r.result + 1],
                       result |-> r.result])

\* acc = [lens, max]: pass_states applies the function to every state
process_state_longest_path_length(h, acc, state) ==
  Let(longest_path_length(h, acc.lens, state), LAMBDA r :
    [lens |-> r.lens, max |-> Max(acc.max, r.result)])

output_dfa_max_issue_rate ==
  /\ pc = "output_dfa_max_issue_rate"
  /\ max_dfa_issue_rate' =
       FoldSeq(LAMBDA acc, st : process_state_longest_path_length(heap, acc, st),
               [lens |-> SeqOf([st \in 1..Len(states) |->
                                  UNDEFINED_LONGEST_PATH_LENGTH]),
                max |-> 0],
               pass_states(heap, start_state)).max
  /\ pc' = "output_tables"
  /\ UNCHANGED <<description, units_array, insn_decls, have_error, ndfa_flag,
                 no_minimization_flag, max_cycles_num, states, free_states,
                 state_table, ainsn_list, start_state, state_stack,
                 reservs_matter, tried, ndfa_arcs, dfa_start, dfa_arcs,
                 equiv_classes, next_iteration_classes, new_equiv_class_num,
                 odd_iteration_flag, achieved_states_num,
                 insn_equiv_classes_num, trans_table, state_alts_table,
                 output_states_vect, min_issue_delay_vect,
                 reserved_units_table,
                 reserv_decls, reported_cycles,
                 got_free_states, w_flag,
                 transformed_insns_num, regexp_transformed_p,
                 max_min_delay, min_issue_delay_table_compression_factor,
                 compressed_min_issue_delay_vect>>

(***************************************************************************)
(* The table of the minimal issue delays.  The members state_pass_num and  *)
(* min_insn_issue_delay of the states are used here only: acc is           *)
(* [state_pass_num, min_insn_issue_delay], both state -> the member.       *)
(***************************************************************************)
\* one out arc of STATE in the loop of min_issue_delay_pass_states;
\* a = [acc, min_insn_issue_delay, stop], stop after a break
RECURSIVE min_issue_delay_pass_states(_, _, _, _, _)
min_issue_delay_pass_arc(h, a, curr_state_pass_num, ainsn, arc) ==
  IF a.stop THEN a
  ELSE IF arc.insn = ainsn
  THEN [a EXCEPT !.min_insn_issue_delay = 0, !.stop = TRUE]
  ELSE Let(min_issue_delay_pass_states(h, a.acc, curr_state_pass_num,
                                       arc.to_state, ainsn),
           LAMBDA r :
       Let(IF r.result # -1 /\ arc.insn = Len(ainsn_list)
           THEN r.result + 1 ELSE r.result,
           LAMBDA insn_issue_delay :
         IF insn_issue_delay # -1
            /\ (a.min_insn_issue_delay = -1
                \/ a.min_insn_issue_delay > insn_issue_delay)
         THEN [acc |-> r.acc, min_insn_issue_delay |-> insn_issue_delay,
               stop |-> insn_issue_delay = 0]
         ELSE [a EXCEPT !.acc = r.acc]))

min_issue_delay_pass_states(h, acc, curr_state_pass_num, state, ainsn) ==
  IF acc.state_pass_num[state] = curr_state_pass_num
     \/ acc.min_insn_issue_delay[state] # -1
  THEN [acc |-> acc, result |-> acc.min_insn_issue_delay[state]]
  ELSE Let(FoldSeq(LAMBDA a, arc :
                     min_issue_delay_pass_arc(h, a, curr_state_pass_num,
                                              ainsn, arc),
                   [acc |-> [acc EXCEPT !.state_pass_num[state] =
                                          curr_state_pass_num],
                    min_insn_issue_delay |-> -1, stop |-> FALSE],
                   h.states[state].first_out_arc),
           LAMBDA r : [acc |-> r.acc, result |-> r.min_insn_issue_delay])

\* a = [acc, curr_state_pass_num, vect]
min_issue_delay(h, a, state, ainsn) ==
  Let(min_issue_delay_pass_states(h, a.acc, a.curr_state_pass_num + 1,
                                  state, ainsn),
      LAMBDA r :
    [acc |-> [r.acc EXCEPT !.min_insn_issue_delay[state] = r.result],
     curr_state_pass_num |-> a.curr_state_pass_num + 1,
     vect |-> [a.vect EXCEPT
                 ![h.states[state].order_state_num * insn_equiv_classes_num
                   + ainsn_list[ainsn].insn_equiv_class_num + 1] = r.result]])

MaxOf(S) == CHOOSE x \in S : \A y \in S : y <= x

\* a | b of C for the integers as two's complement numbers
RECURSIVE bit_or(_, _)
bit_or(a, b) ==
  IF a = 0 THEN b
  ELSE IF b = 0 THEN a
  ELSE IF a = -1 \/ b = -1 THEN -1
  ELSE (IF a % 2 = 1 \/ b % 2 = 1 THEN 1 ELSE 0)
       + 2 * bit_or(a \div 2, b \div 2)

\* value << n of C; a negative value is shifted as a two's complement
\* number, as the hosts of the generator do
shift_left(value, n) == value * 2 ^ n

\* the choice of the compression factor in output_min_issue_delay_table
compression_factor(max_delay) ==
  IF max_delay < 2 THEN 8
  ELSE IF max_delay < 4 THEN 4
  ELSE IF max_delay < 16 THEN 2
  ELSE 1

\* the loops of output_min_issue_delay_table which compress the vector
compress_min_issue_delay_vect(vect, factor) ==
  FoldSeq(LAMBDA compressed, i :
            [compressed EXCEPT
               ![i \div factor + 1] =
                  bit_or(@, shift_left(vect[i + 1],
                                       8 - ((i % factor) + 1)
                                           * (8 \div factor)))],
          SeqOf([i \in 1..((Len(vect) + factor - 1) \div factor) |-> 0]),
          SeqOf([i \in 1..Len(vect) |-> i - 1]))

output_min_issue_delay_table ==
  /\ pc = "output_min_issue_delay_table"
  /\ output_states_vect' = pass_states(heap, start_state)
  /\ \E vect \in {pass_states(heap, start_state)} :
       min_issue_delay_vect' =
         FoldSeq(LAMBDA a0, ainsn :
                   IF ~ainsn_list[ainsn].first_ainsn_with_given_equialence_num
                   THEN a0
                   ELSE FoldSeq(LAMBDA a, st :
                                  min_issue_delay(heap, a, st, ainsn),
                                [a0 EXCEPT !.acc.min_insn_issue_delay =
                                   SeqOf([st \in 1..Len(states) |-> -1])],
                                vect),
                 [acc |-> [state_pass_num |->
                             SeqOf([st \in 1..Len(states) |-> 0]),
                           min_insn_issue_delay |->
                             SeqOf([st \in 1..Len(states) |-> -1])],
                  curr_state_pass_num |-> 0,
                  vect |-> SeqOf([i \in 1..(Len(vect) * insn_equiv_classes_num)
                                    |-> 0])],
                 SeqOf([k \in 1..Len(ainsn_list) |-> k])).vect
  /\ max_min_delay' = MaxOf({0} \cup Range(min_issue_delay_vect'))
  /\ min_issue_delay_table_compression_factor' =
       compression_factor(max_min_delay')
  /\ compressed_min_issue_delay_vect' =
       compress_min_issue_delay_vect(
         min_issue_delay_vect', min_issue_delay_table_compression_factor')
  /\ pc' = "output_reserved_units_table"
  /\ UNCHANGED <<description, units_array, insn_decls, have_error, ndfa_flag,
                 no_minimization_flag, max_cycles_num, states, free_states,
                 state_table, ainsn_list, start_state, state_stack,
                 reservs_matter, tried, ndfa_arcs, dfa_start, dfa_arcs,
                 equiv_classes, next_iteration_classes, new_equiv_class_num,
                 odd_iteration_flag, achieved_states_num,
                 insn_equiv_classes_num, trans_table, state_alts_table,
                 max_dfa_issue_rate, reserved_units_table,
                 reserv_decls, reported_cycles,
                 got_free_states, w_flag,
                 transformed_insns_num, regexp_transformed_p>>

\* one pass of the loop over the units for the state STATE
reserved_units_of_state(h, table, state, state_byte_size) ==
  FoldSeq(LAMBDA tab, i :
            IF units_array[i + 1].query_p
               /\ first_cycle_unit_presence(h, state, i)
            THEN [tab EXCEPT
                    ![h.states[state].order_state_num * state_byte_size
                      + (units_array[i + 1].query_num \div 8) + 1] =
                       @ + 2 ^ (units_array[i + 1].query_num % 8)]
            ELSE tab,
          table, SeqOf([i \in 1..description.units_num |-> i - 1]))

output_reserved_units_table ==
  /\ pc = "output_reserved_units_table"
  /\ output_states_vect' = pass_states(heap, start_state)
  /\ \E state_byte_size \in {(description.query_units_num + 7) \div 8} :
       reserved_units_table' =
         FoldSeq(LAMBDA tab, state :
                   reserved_units_of_state(heap, tab, state, state_byte_size),
                 SeqOf([i \in 1..(Len(pass_states(heap, start_state))
                                   * state_byte_size) |-> 0]),
                 pass_states(heap, start_state))
  /\ pc' = "done"
  /\ UNCHANGED <<description, units_array, insn_decls, reserv_decls,
                 reported_cycles, have_error, ndfa_flag,
                 no_minimization_flag, max_cycles_num, states, free_states,
                 state_table, ainsn_list, start_state, state_stack,
                 reservs_matter, tried, ndfa_arcs, dfa_start, dfa_arcs,
                 equiv_classes, next_iteration_classes, new_equiv_class_num,
                 odd_iteration_flag, achieved_states_num,
                 insn_equiv_classes_num, trans_table, state_alts_table,
                 max_dfa_issue_rate, min_issue_delay_vect,
                 got_free_states, w_flag,
                 transformed_insns_num, regexp_transformed_p,
                 max_min_delay, min_issue_delay_table_compression_factor,
                 compressed_min_issue_delay_vect>>

\* the transformer is run whether or not the checker reported an error
after_check_ignoring_error(error) == "transform_insn_regexps"

\* expand_automata after check_all_description: nothing more is run when
\* the checker reported an error, and write_automata ends with fatal ()
after_check_all_description(error) ==
  IF error THEN "done" ELSE "transform_insn_regexps"

check_all_description ==
  /\ pc = "check_all_description"
  /\ \E pd \in {process_decls(description.decls)} :
     \E pr \in {process_regexp_decls(pd.ua, pd.reservs, description.decls,
                                      pd.insns)} :
     \E cl \in {check_loops_in_regexps(description.decls, pr.ra)} :
     \E err \in {pd.err \/ check_automaton_usage(description.decls)
                   \/ pr.err \/ check_usage(pr.ua, pr.ra)
                   \/ cl.cycles # {}} :
     \E ev \in {IF err THEN [ua |-> pr.ua, max_insn_reserv_cycles |-> 0]
                 ELSE evaluate_max_reserv_cycles(pr.ua, cl.ra, pr.insns)} :
        /\ have_error' = err
        /\ units_array' = ev.ua
        /\ insn_decls' = pr.insns
        /\ reserv_decls' = cl.ra
        /\ reported_cycles' = cl.cycles
        /\ description' =
             [description EXCEPT
                !.units_num = Len(pr.ua), !.insns_num = Len(pr.insns),
                !.max_insn_reserv_cycles = ev.max_insn_reserv_cycles]
        /\ pc' = after_check_all_description(err)
  /\ UNCHANGED <<ndfa_flag, no_minimization_flag, max_cycles_num, states,
                 free_states, state_table, ainsn_list, start_state,
                 state_stack, reservs_matter, tried, ndfa_arcs, dfa_start,
                 dfa_arcs, equiv_classes, next_iteration_classes,
                 new_equiv_class_num, odd_iteration_flag,
                 achieved_states_num, insn_equiv_classes_num, trans_table,
                 state_alts_table, output_states_vect,
                 max_dfa_issue_rate, min_issue_delay_vect,
                 reserved_units_table,
                 got_free_states, w_flag,
                 transformed_insns_num, regexp_transformed_p,
                 max_min_delay, min_issue_delay_table_compression_factor,
                 compressed_min_issue_delay_vect>>

transform_insn_regexps ==
  /\ pc = "transform_insn_regexps"
  /\ insn_decls' =
       add_advance_cycle_insn_decl(
         SeqOf([i \in 1..Len(insn_decls) |->
            [insn_decls[i] EXCEPT
               !.transformed_regexp =
                  transform_regexp(copy_insn_regexp(reserv_decls,
                                                    insn_decls[i].regexp))]]))
  /\ description' = [description EXCEPT !.insns_num = @ + 1]
  /\ transformed_insns_num' = Len(insn_decls)
  /\ regexp_transformed_p' = FALSE
  /\ pc' = "generate"
  /\ UNCHANGED <<units_array, have_error, ndfa_flag, no_minimization_flag,
                 max_cycles_num, states, free_states, state_table,
                 ainsn_list, start_state, state_stack, reservs_matter, tried,
                 ndfa_arcs, dfa_start, dfa_arcs, equiv_classes,
                 next_iteration_classes, new_equiv_class_num,
                 odd_iteration_flag, achieved_states_num,
                 insn_equiv_classes_num, trans_table, state_alts_table,
                 output_states_vect,
                 max_dfa_issue_rate, min_issue_delay_vect,
                 reserved_units_table,
                 reserv_decls, reported_cycles,
                 got_free_states, w_flag,
                 max_min_delay, min_issue_delay_table_compression_factor,
                 compressed_min_issue_delay_vect>>

\* initiate_states, initiate_excl_sets, initiate_presence_absence_pattern_sets
\* and the creation of the ainsns of the only automaton
generate ==
  /\ pc = "generate"
  /\ max_cycles_num' = description.max_insn_reserv_cycles
  /\ units_array' = initiate_sets(units_array)
  /\ ainsn_list' = create_ainsns(insn_decls)
  /\ pc' = "create_alt_states"
  /\ UNCHANGED <<description, insn_decls, have_error, ndfa_flag,
                 no_minimization_flag, states, free_states, state_table,
                 start_state, state_stack, reservs_matter, tried, ndfa_arcs,
                 dfa_start, dfa_arcs, equiv_classes, next_iteration_classes,
                 new_equiv_class_num, odd_iteration_flag,
                 achieved_states_num, insn_equiv_classes_num, trans_table,
                 state_alts_table, output_states_vect,
                 max_dfa_issue_rate, min_issue_delay_vect,
                 reserved_units_table,
                 reserv_decls, reported_cycles,
                 got_free_states, w_flag,
                 transformed_insns_num, regexp_transformed_p,
                 max_min_delay, min_issue_delay_table_compression_factor,
                 compressed_min_issue_delay_vect>>

create_alt_states_step ==
  /\ pc = "create_alt_states"
  /\ \E x \in {create_alt_states(heap, insn_decls, ainsn_list)} :
        /\ states' = x.h.states
        /\ free_states' = x.h.free_states
        /\ got_free_states' = x.h.got_free_states
        /\ state_table' = x.h.state_table
        /\ ainsn_list' = form_ainsn_with_same_reservs(insn_decls, x.ainsns)
  /\ pc' = "make_automaton"
  /\ UNCHANGED <<description, units_array, insn_decls, have_error, ndfa_flag,
                 no_minimization_flag, max_cycles_num, start_state,
                 state_stack, reservs_matter, tried, ndfa_arcs, dfa_start,
                 dfa_arcs, equiv_classes, next_iteration_classes,
                 new_equiv_class_num, odd_iteration_flag,
                 achieved_states_num, insn_equiv_classes_num, trans_table,
                 state_alts_table, output_states_vect,
                 max_dfa_issue_rate, min_issue_delay_vect,
                 reserved_units_table,
                 reserv_decls, reported_cycles, w_flag,
                 transformed_insns_num, regexp_transformed_p,
                 max_min_delay, min_issue_delay_table_compression_factor,
                 compressed_min_issue_delay_vect>>

make_automaton_start ==
  /\ pc = "make_automaton"
  /\ \E f \in {get_free_state(heap, TRUE)} :
     \E x \in {insert_state(f.h, f.result)} :
        /\ states' = [x.h.states EXCEPT
             ![x.result].it_was_placed_in_stack_for_NDFA_forming = TRUE]
        /\ free_states' = x.h.free_states
        /\ got_free_states' = x.h.got_free_states
        /\ state_table' = x.h.state_table
        /\ start_state' = x.result
        /\ state_stack' = <<x.result>>
  /\ reservs_matter' = form_reservs_matter(units_array, max_cycles_num)
  /\ pc' = "make_automaton_loop"
  /\ UNCHANGED <<description, units_array, insn_decls, have_error, ndfa_flag,
                 no_minimization_flag, max_cycles_num, ainsn_list, tried,
                 ndfa_arcs, dfa_start, dfa_arcs, equiv_classes,
                 next_iteration_classes, new_equiv_class_num,
                 odd_iteration_flag, achieved_states_num,
                 insn_equiv_classes_num, trans_table, state_alts_table,
                 output_states_vect,
                 max_dfa_issue_rate, min_issue_delay_vect,
                 reserved_units_table,
                 reserv_decls, reported_cycles, w_flag,
                 transformed_insns_num, regexp_transformed_p,
                 max_min_delay, min_issue_delay_table_compression_factor,
                 compressed_min_issue_delay_vect>>

make_automaton_step ==
  /\ pc = "make_automaton_loop"
  /\ state_stack # <<>>
  /\ \E state \in {state_stack[Len(state_stack)]} :
     \E r \in {make_automaton_state(heap,
                SubSeq(state_stack, 1, Len(state_stack) - 1), state)} :
        /\ states' = r.h.states
        /\ free_states' = r.h.free_states
        /\ got_free_states' = r.h.got_free_states
        /\ state_table' = r.h.state_table
        /\ state_stack' = r.state_stack
        /\ ainsn_list' = SeqOf([k \in 1..Len(ainsn_list) |->
             [ainsn_list[k] EXCEPT
                !.arc_exists_p = @ \/ k \in r.arc_exists]])
        /\ tried' = tried \cup tried_for_state(heap, state)
  /\ UNCHANGED <<pc, description, units_array, insn_decls, have_error,
                 ndfa_flag, no_minimization_flag, max_cycles_num,
                 start_state, reservs_matter, ndfa_arcs, dfa_start,
                 dfa_arcs, equiv_classes, next_iteration_classes,
                 new_equiv_class_num, odd_iteration_flag,
                 achieved_states_num, insn_equiv_classes_num, trans_table,
                 state_alts_table, output_states_vect,
                 max_dfa_issue_rate, min_issue_delay_vect,
                 reserved_units_table,
                 reserv_decls, reported_cycles, w_flag,
                 transformed_insns_num, regexp_transformed_p,
                 max_min_delay, min_issue_delay_table_compression_factor,
                 compressed_min_issue_delay_vect>>

NDFA_to_DFA_start ==
  /\ pc = "make_automaton_loop"
  /\ state_stack = <<>>
  /\ states' = [states EXCEPT
       ![start_state].it_was_placed_in_stack_for_DFA_forming = TRUE]
  /\ state_stack' = <<start_state>>
  /\ ndfa_arcs' = SeqOf([k \in 1..Len(states) |-> states[k].first_out_arc])
  /\ pc' = "NDFA_to_DFA"
  /\ UNCHANGED <<description, units_array, insn_decls, have_error, ndfa_flag,
                 no_minimization_flag, max_cycles_num, free_states,
                 state_table, ainsn_list, start_state, reservs_matter, tried,
                 dfa_start, dfa_arcs, equiv_classes, next_iteration_classes,
                 new_equiv_class_num, odd_iteration_flag,
                 achieved_states_num, insn_equiv_classes_num, trans_table,
                 state_alts_table, output_states_vect,
                 max_dfa_issue_rate, min_issue_delay_vect,
                 reserved_units_table,
                 reserv_decls, reported_cycles,
                 got_free_states, w_flag,
                 transformed_insns_num, regexp_transformed_p,
                 max_min_delay, min_issue_delay_table_compression_factor,
                 compressed_min_issue_delay_vect>>

NDFA_to_DFA_step ==
  /\ pc = "NDFA_to_DFA"
  /\ state_stack # <<>>
  /\ \E state \in {state_stack[Len(state_stack)]} :
     \E r \in {NDFA_to_DFA_state(heap,
                SubSeq(state_stack, 1, Len(state_stack) - 1), state)} :
        /\ states' = r.h.states
        /\ free_states' = r.h.free_states
        /\ got_free_states' = r.h.got_free_states
        /\ state_table' = r.h.state_table
        /\ state_stack' = r.state_stack
  /\ UNCHANGED <<pc, description, units_array, insn_decls, have_error,
                 ndfa_flag, no_minimization_flag, max_cycles_num, ainsn_list,
                 start_state, reservs_matter, tried, ndfa_arcs, dfa_start,
                 dfa_arcs, equiv_classes, next_iteration_classes,
                 new_equiv_class_num, odd_iteration_flag,
                 achieved_states_num, insn_equiv_classes_num, trans_table,
                 state_alts_table, output_states_vect,
                 max_dfa_issue_rate, min_issue_delay_vect,
                 reserved_units_table,
                 reserv_decls, reported_cycles, w_flag,
                 transformed_insns_num, regexp_transformed_p,
                 max_min_delay, min_issue_delay_table_compression_factor,
                 compressed_min_issue_delay_vect>>

Next ==
  \/ check_all_description
  \/ NDFA_to_DFA_start
  \/ NDFA_to_DFA_step
  \/ make_automaton_start
  \/ make_automaton_step
  \/ generate
  \/ create_alt_states_step
  \/ transform_insn_regexps
  \/ evaluate_equiv_classes_start
  \/ evaluate_equiv_classes_step
  \/ merge_states_step
  \/ enumerate_states
  \/ set_insn_equiv_classes_step
  \/ check_automata_insn_issues
  \/ output_trans_table
  \/ output_state_alts_table
  \/ output_dfa_max_issue_rate
  \/ output_min_issue_delay_table
  \/ output_reserved_units_table

Spec == Init /\ [][Next]_vars

(***************************************************************************)
(* Properties.                                                             *)
(***************************************************************************)
\* NDFA_to_DFA has emptied its stack: build_automaton goes on to minimize_DFA
\* or to enumerate_states
BuilderFinished == pc = "NDFA_to_DFA" /\ state_stack = <<>>

\* no two out arcs of STATE are marked by the same insn
deterministic_state(arcs) ==
  \A k, j \in 1..Len(arcs) : arcs[k].insn = arcs[j].insn => k = j

\* C2: when make_automaton and NDFA_to_DFA have finished, with or without
\* ndfa_flag, every state achieved from the start state has at most one out
\* arc marked by an insn.
C2_OneArcPerInsn ==
  BuilderFinished =>
    \A st \in Range(pass_states(heap, start_state)) :
      deterministic_state(states[st].first_out_arc)

\* NDFA_to_DFA has finished for an automaton whose NDFA start state had
\* several out arcs marked by one insn
C2_Witness ==
  /\ BuilderFinished
  /\ ndfa_flag
  /\ ~deterministic_state(ndfa_arcs[start_state])

\* merge_states has just finished: dfa_start and dfa_arcs hold the automaton
\* before minimize_DFA, start_state and states the automaton after it
Minimized == pc = "enumerate_states"

\* the pairs <<state before minimize_DFA, state after it>> one arc further
language_step(reached) ==
  reached \cup
    {<<dfa_arcs[p[1]][k].to_state, states[p[2]].first_out_arc[j].to_state>> :
       <<p, k, j>> \in
         {x \in reached \X (1..(Len(insn_decls) + 1))
                        \X (1..(Len(insn_decls) + 1)) :
            /\ x[2] <= Len(dfa_arcs[x[1][1]])
            /\ x[3] <= Len(states[x[1][2]].first_out_arc)
            /\ dfa_arcs[x[1][1]][x[2]].insn
               = states[x[1][2]].first_out_arc[x[3]].insn}}

\* the pairs of states reached by the same sequence of insns
RECURSIVE language_pairs(_)
language_pairs(reached) ==
  IF language_step(reached) = reached THEN reached
  ELSE language_pairs(language_step(reached))

\* the insns which can be issued in the state with the out arcs ARCS
issued_insns(arcs) == {arcs[k].insn : k \in 1..Len(arcs)}

\* the reservations of STATE: of its components for a composed state
state_reservations(state) ==
  IF states[state].component_states = <<>> THEN {states[state].reservs}
  ELSE {states[st].reservs : st \in Range(states[state].component_states)}

\* the query units STATE reserves on the first cycle
query_units_presence(state) ==
  {i \in 0..(Len(units_array) - 1) :
     units_array[i + 1].query_p /\ first_cycle_unit_presence(heap, state, i)}

\* C1 as stated: the sequences of insns issued from the start state and the
\* reservations of the states they reach are the same before and after
\* minimize_DFA.
C1_SameReservations ==
  Minimized =>
    \A p \in language_pairs({<<dfa_start, start_state>>}) :
      /\ issued_insns(dfa_arcs[p[1]])
         = issued_insns(states[p[2]].first_out_arc)
      /\ state_reservations(p[1]) = state_reservations(p[2])

\* C1 (amended): the sequences of insns issued from the start state and the
\* first cycle reservations of the query units in the states they reach are
\* the same before and after minimize_DFA.
C1_SameLanguageAndQueryUnits ==
  Minimized =>
    \A p \in language_pairs({<<dfa_start, start_state>>}) :
      /\ issued_insns(dfa_arcs[p[1]])
         = issued_insns(states[p[2]].first_out_arc)
      /\ query_units_presence(p[1]) = query_units_presence(p[2])

\* merge_states has merged several states of an automaton with a query unit
\* reserved in some state reached
C1_Witness ==
  /\ Minimized
  /\ \E k \in 1..Len(equiv_classes) : Len(equiv_classes[k]) > 1
  /\ \E p \in language_pairs({<<dfa_start, start_state>>}) :
       query_units_presence(p[1]) # {}

\* output_tables has built the transition and the state alternatives tables
TablesBuilt == pc = "done" /\ state_alts_table # NoTable

\* C3: for every state and every insn equivalence class the code with the
\* comb vector (base, check, comb) gives the value of the code with the
\* full vector, for the transition table and for the state alts table.
C3_CombVectEqualsFullVect ==
  TablesBuilt =>
    \A state \in 0..(achieved_states_num - 1),
       insn_equiv_class \in 0..(insn_equiv_classes_num - 1) :
      /\ comb_vect_transition(trans_table, state, insn_equiv_class)
         = full_vect_transition(trans_table, state, insn_equiv_class)
      /\ comb_vect_state_alts(state_alts_table, state, insn_equiv_class)
         = full_vect_state_alts(state_alts_table, state, insn_equiv_class)

\* the vectors of several states overlap in a comb vector shorter than the
\* full vector, and some element is found undefined by the check vector
C3_Witness ==
  /\ TablesBuilt
  /\ Len(trans_table.comb_vect) < Len(trans_table.full_vect)
  /\ \E state \in 0..(achieved_states_num - 1),
        insn_equiv_class \in 0..(insn_equiv_classes_num - 1) :
       LET temp == trans_table.base_vect[state + 1] + insn_equiv_class
       IN /\ trans_table.check_vect[temp + 1] # state
          /\ trans_table.check_vect[temp + 1] # achieved_states_num

\* set_insn_equiv_classes has numbered the classes of the ainsns
InsnClassesSet ==
  pc \in {"check_automata_insn_issues", "output_dfa_max_issue_rate",
          "output_tables", "output_state_alts_table",
          "output_min_issue_delay_table", "output_reserved_units_table",
          "done"}
  /\ insn_equiv_classes_num > 0

\* the destinations and state_alts of the out arcs of STATE marked by AINSN
arcs_marked_by(state, ainsn) ==
  {[to_state |-> states[state].first_out_arc[k].to_state,
    state_alts |-> states[state].first_out_arc[k].state_alts] :
     k \in {j \in 1..Len(states[state].first_out_arc) :
              states[state].first_out_arc[j].insn = ainsn}}

\* C4: two ainsns of one equivalence class have from every state either no
\* out arc or out arcs to the same state with the same state_alts, and the
\* element of the state alts table for a state and a class is the state_alts
\* of the arc of every ainsn of the class.
C4_SameClassSameArcAndAlts ==
  /\ InsnClassesSet =>
       \A state \in Range(pass_states(heap, start_state)),
          i, j \in {k \in 1..Len(ainsn_list) :
                      ainsn_list[k].first_insn_with_same_reservs} :
         ainsn_list[i].insn_equiv_class_num
           = ainsn_list[j].insn_equiv_class_num
         => arcs_marked_by(state, i) = arcs_marked_by(state, j)
  /\ TablesBuilt =>
       \A state \in Range(pass_states(heap, start_state)),
          i \in 1..Len(ainsn_list) :
         \A arc \in arcs_marked_by(state, i) :
           output_automata_list_state_alts_code(
             state_alts_table, states[state].order_state_num,
             ainsn_list[i].insn_equiv_class_num) = arc.state_alts

\* the unit numbers of the units of a pattern of a presence or absence list
pattern_units(pat) == {units_array[pat[e]].unit_num : e \in 1..Len(pat)}

\* the patterns of the lists of the units which RESERVS reserves on CYCLE
\* are tested on CHECKED: every unit has an empty list or Test holds
units_patterns(reservs, checked, cycle, list(_), Test(_, _)) ==
  \A unit_num \in cycle_reserv(reservs, cycle) :
    \/ list(units_array[unit_num + 1]) = <<>>
    \/ Test(list(units_array[unit_num + 1]), cycle_reserv(checked, cycle))

every_pattern_present(pats, checked_set) ==
  \A k \in 1..Len(pats) : pattern_units(pats[k]) \subseteq checked_set

some_pattern_present(pats, checked_set) ==
  \E k \in 1..Len(pats) : pattern_units(pats[k]) \subseteq checked_set

\* C5 as stated: when the reservations of an alt state are found not
\* intersected with the ones of a state, every pattern of the presence list
\* of every unit the alt state reserves on a cycle is reserved on the cycle
\* by the state, and every pattern of its final presence list by the state
\* and the alt state together.
C5_EveryPatternPresent ==
  pc = "make_automaton_loop" =>
    \A t \in tried :
      ~t.intersected =>
        \A cycle \in 0..(max_cycles_num - 1) :
          /\ units_patterns(t.reservs_2, t.reservs_1, cycle,
                            LAMBDA u : u.presence_list, every_pattern_present)
          /\ units_patterns(t.reservs_2, t.reservs_1 \cup t.reservs_2, cycle,
                            LAMBDA u : u.final_presence_list,
                            every_pattern_present)

\* C5 (amended): when the reservations of an alt state are found not
\* intersected with the ones of a state, at least one pattern of the non
\* empty presence list of every unit the alt state reserves on a cycle is
\* reserved on the cycle by the state, and at least one pattern of its non
\* empty final presence list by the state and the alt state together.
C5_SomePatternPresent ==
  pc = "make_automaton_loop" =>
    \A t \in tried :
      ~t.intersected =>
        \A cycle \in 0..(max_cycles_num - 1) :
          /\ units_patterns(t.reservs_2, t.reservs_1, cycle,
                            LAMBDA u : u.presence_list, some_pattern_present)
          /\ units_patterns(t.reservs_2, t.reservs_1 \cup t.reservs_2, cycle,
                            LAMBDA u : u.final_presence_list,
                            some_pattern_present)

\* an alt state is accepted which reserves a unit with several patterns in
\* its final presence list, one of them reserved and another one not
C5_Witness ==
  \E t \in tried :
    /\ ~t.intersected
    /\ \E unit_num \in cycle_reserv(t.reservs_2, 0) :
         LET pats == units_array[unit_num + 1].final_presence_list
         IN \E k, j \in 1..Len(pats) :
              /\ pattern_units(pats[k]) \subseteq
                   cycle_reserv(t.reservs_1 \cup t.reservs_2, 0)
              /\ ~(pattern_units(pats[j]) \subseteq
                     cycle_reserv(t.reservs_1 \cup t.reservs_2, 0))

\* the units reserved on CYCLE by SET break a pattern list of the unit with
\* UNIT_NUM: an excluded unit or a whole absence or final absence pattern
\* is reserved, or no pattern of a presence or final presence list is
pattern_violated(unit_num, set, cycle) ==
  LET unit == units_array[unit_num + 1]
      checked_set == cycle_reserv(set, cycle)
  IN \/ pattern_units(unit.excl_list) \cap checked_set # {}
     \/ unit.presence_list # <<>>
        /\ ~some_pattern_present(unit.presence_list, checked_set)
     \/ unit.final_presence_list # <<>>
        /\ ~some_pattern_present(unit.final_presence_list, checked_set)
     \/ some_pattern_present(unit.absence_list, checked_set)
     \/ some_pattern_present(unit.final_absence_list, checked_set)

\* C6 as stated: reserv_sets_are_intersected answers true whenever the union
\* of its operands breaks an exclusion, presence or absence pattern of a
\* unit reserved in the first or in the second operand.
C6_PatternsOfEitherOperand ==
  pc = "make_automaton_loop" =>
    \A t \in tried :
      (\E b \in t.reservs_1 \cup t.reservs_2 :
         pattern_violated(b[2], t.reservs_1 \cup t.reservs_2, b[1]))
      => t.intersected

\* C6 (amended): reserv_sets_are_intersected answers true whenever a unit of
\* one operand is excluded by a unit the other operand reserves on the same
\* cycle, whenever the union of the operands breaks a presence, final
\* presence or final absence pattern of a unit reserved in the second
\* operand (the alt state), and whenever the first operand (the state)
\* reserves a whole absence pattern of a unit reserved in the second.
C6_PatternsOfSecondOperand ==
  pc = "make_automaton_loop" =>
    \A t \in tried :
      (\/ \E b1 \in t.reservs_1, b2 \in t.reservs_2 :
            /\ b1[1] = b2[1]
            /\ \/ b1[2] \in pattern_units(units_array[b2[2] + 1].excl_list)
               \/ b2[2] \in pattern_units(units_array[b1[2] + 1].excl_list)
       \/ \E b \in t.reservs_2 :
            LET unit == units_array[b[2] + 1]
                union == cycle_reserv(t.reservs_1 \cup t.reservs_2, b[1])
            IN \/ unit.presence_list # <<>>
                  /\ ~some_pattern_present(unit.presence_list, union)
               \/ unit.final_presence_list # <<>>
                  /\ ~some_pattern_present(unit.final_presence_list, union)
               \/ some_pattern_present(unit.final_absence_list, union)
               \/ some_pattern_present(unit.absence_list,
                                       cycle_reserv(t.reservs_1, b[1])))
      => t.intersected

\* reservations with no common unit on a cycle are found intersected because
\* of an absence or final absence pattern of a unit of the alt state
C6_Witness ==
  \E t \in tried :
    /\ t.intersected
    /\ t.reservs_1 \cap t.reservs_2 = {}
    /\ \E b \in t.reservs_2 :
         \/ some_pattern_present(units_array[b[2] + 1].absence_list,
                                 cycle_reserv(t.reservs_1, b[1]))
         \/ some_pattern_present(
              units_array[b[2] + 1].final_absence_list,
              cycle_reserv(t.reservs_1 \cup t.reservs_2, b[1]))

\* a unit of RESERVS_2 is in the exclusion list of a unit which RESERVS_1
\* reserves on the same cycle
excluded_reservs(reservs_1, reservs_2) ==
  \E b1 \in reservs_1, b2 \in reservs_2 :
    /\ b1[1] = b2[1]
    /\ b2[2] \in pattern_units(units_array[b1[2] + 1].excl_list)

\* the states whose out arcs make_automaton has formed
processed_states ==
  {st \in 1..Len(states) :
     /\ states[st].it_was_placed_in_stack_for_NDFA_forming
     /\ st \notin Range(state_stack)}

\* units a and b with exclusion_set (a; b), insn i1 reserves a, i2 reserves b
ScenarioB == description.decls = MkDecls(<<1>>, <<1, 2>>)

\* C7: a state reserving a unit and an alt state reserving on the same cycle
\* a unit excluded by it are intersected, and a state has no out arc marked
\* by an insn all of whose alt states are excluded so; in scenario B the
\* state {a@0} has no arc marked by i2, only the arc of the advance cycle,
\* which enters a state with an arc marked by i2.
C7_ExclusionForbidsArc ==
  /\ pc = "make_automaton_loop" =>
       \A t \in tried :
         excluded_reservs(t.reservs_1, t.reservs_2) => t.intersected
  /\ pc = "make_automaton_loop" =>
       \A st \in processed_states, ainsn \in 1..(Len(ainsn_list) - 1) :
         (\A k \in 1..Len(ainsn_list[ainsn].alt_states) :
            excluded_reservs(states[st].reservs,
                             states[ainsn_list[ainsn].alt_states[k]].reservs))
         => arcs_marked_by(st, ainsn) = {}
  /\ (ScenarioB /\ pc = "make_automaton_loop") =>
       \A st \in processed_states :
         states[st].reservs = {<<0, 0>>} =>
           /\ issued_insns(states[st].first_out_arc) = {Len(ainsn_list)}
           /\ \A arc \in arcs_marked_by(st, Len(ainsn_list)) :
                arc.to_state \in processed_states
                => arcs_marked_by(arc.to_state, 2) # {}

\* scenario B: the out arcs of all states are formed, the state {a@0} among
\* them, and i2 was tried in it
C7_Witness ==
  /\ ScenarioB
  /\ pc = "make_automaton_loop"
  /\ state_stack = <<>>
  /\ \E st \in processed_states : states[st].reservs = {<<0, 0>>}
  /\ \E t \in tried :
       /\ t.reservs_1 = {<<0, 0>>}
       /\ t.reservs_2 = {<<0, 1>>}
       /\ t.intersected

\* units a, b and c with presence_set (a; "b c"), insn i1 reserves a, i2
\* reserves a+b+c
ScenarioD == description.decls = MkDecls(<<2>>, <<1, 4>>)

\* scenario D with final_presence_set (a; "b c")
ScenarioDFinal == description.decls = MkDecls(<<3>>, <<1, 4>>)

\* make_automaton has formed the out arcs of the start state
StartStateProcessed ==
  pc = "make_automaton_loop" /\ start_state \in processed_states

\* C8 as stated: in scenario D the start state has an out arc marked by the
\* insn reserving a+b+c.
C8_ScenarioD_ABC_Issues ==
  (ScenarioD /\ StartStateProcessed) => arcs_marked_by(start_state, 2) # {}

\* C8 (amended): in scenario D the start state has no out arc marked by the
\* insn reserving a+b+c; with final_presence_set in place of presence_set
\* it has one.
C8_ScenarioD_ABC_IssuesWithFinalPresence ==
  StartStateProcessed =>
    /\ ScenarioD => arcs_marked_by(start_state, 2) = {}
    /\ ScenarioDFinal => arcs_marked_by(start_state, 2) # {}

\* the out arcs of the start state of scenario D are formed after a+b+c was
\* tried in it and found intersected
C8_Witness ==
  /\ ScenarioD
  /\ StartStateProcessed
  /\ \E t \in tried :
       /\ t.reservs_1 = {}
       /\ t.reservs_2 = {<<0, 0>>, <<0, 1>>, <<0, 2>>}
       /\ t.intersected

\* C9: in scenario D an alt state reserving a on a cycle where b and c are
\* not both reserved is found intersected with the state; the start
\* state has no out arc marked by the insn reserving a, its only out arc is
\* the one of the advance cycle.
C9_ScenarioD_A_Rejected ==
  ScenarioD =>
    /\ \A t \in tried :
         (\E cycle \in 0..(max_cycles_num - 1) :
            /\ 0 \in cycle_reserv(t.reservs_2, cycle)
            /\ ~({1, 2} \subseteq
                   cycle_reserv(t.reservs_1 \cup t.reservs_2, cycle)))
         => t.intersected
    /\ StartStateProcessed =>
         /\ arcs_marked_by(start_state, 1) = {}
         /\ issued_insns(states[start_state].first_out_arc)
            = {Len(ainsn_list)}

\* the out arcs of the start state of scenario D are formed after the insn
\* reserving a was tried in it
C9_Witness ==
  /\ ScenarioD
  /\ StartStateProcessed
  /\ \E t \in tried :
       t.reservs_1 = {} /\ t.reservs_2 = {<<0, 0>>} /\ t.intersected

\* unit a and insn i1 with the reservation a | a, a, under -ndfa
ScenarioC == description.decls = MkDecls(<<>>, <<5>>) /\ ndfa_flag

\* C10: in scenario C the start state of the NDFA has two out arcs marked by
\* i1, NDFA_to_DFA leaves a single arc marked by i1, which enters a composed
\* state, and the state_alts of the arc and the element of the state alts
\* table for the start state and i1 are 2.
C10_ScenarioC_StateAltsIsTwo ==
  ScenarioC =>
    /\ pc = "NDFA_to_DFA" =>
         Cardinality({k \in 1..Len(ndfa_arcs[start_state]) :
                        ndfa_arcs[start_state][k].insn = 1}) = 2
    /\ BuilderFinished =>
         /\ Cardinality(arcs_marked_by(start_state, 1)) = 1
         /\ \A arc \in arcs_marked_by(start_state, 1) :
              /\ states[arc.to_state].component_states # <<>>
              /\ arc.state_alts = 2
    /\ TablesBuilt =>
         output_automata_list_state_alts_code(
           state_alts_table, states[start_state].order_state_num,
           ainsn_list[1].insn_equiv_class_num) = 2

\* unit a and insn i1 with the reservation a | a, a, without -ndfa
ScenarioCDeterministic ==
  description.decls = MkDecls(<<>>, <<5>>) /\ ~ndfa_flag

\* the element of the state alts table for the start state and i1
start_state_alts_of_i1 ==
  output_automata_list_state_alts_code(
    state_alts_table, states[start_state].order_state_num,
    ainsn_list[1].insn_equiv_class_num)

\* the out arc of the start state marked by i1 enters the state of the
\* first alternative, a on the first cycle only
arc_to_first_alternative ==
  /\ Cardinality(arcs_marked_by(start_state, 1)) = 1
  /\ \A arc \in arcs_marked_by(start_state, 1) :
       states[arc.to_state].reservs = {<<0, 0>>}

\* C11 as stated: in scenario C without -ndfa the arc of the start state
\* marked by i1 enters the state of the first alternative and the state_alts
\* of the arc and the element of the state alts table for the start state
\* and i1 are 1.
C11_ScenarioC_DeterministicStateAltsIsOne ==
  ScenarioCDeterministic =>
    /\ BuilderFinished =>
         /\ arc_to_first_alternative
         /\ \A arc \in arcs_marked_by(start_state, 1) : arc.state_alts = 1
    /\ TablesBuilt => start_state_alts_of_i1 = 1

\* C11: in scenario C without -ndfa the arc of the start state marked by i1
\* enters the state of the first alternative and the state_alts of the arc
\* and the element of the state alts table for the start state and i1 are
\* 2, the number of the alternatives which do not conflict with the start
\* state.
C11_ScenarioC_DeterministicStateAltsIsTwo ==
  ScenarioCDeterministic =>
    /\ BuilderFinished =>
         /\ arc_to_first_alternative
         /\ \A arc \in arcs_marked_by(start_state, 1) : arc.state_alts = 2
    /\ TablesBuilt => start_state_alts_of_i1 = 2

C11_Witness ==
  /\ ScenarioCDeterministic
  /\ TablesBuilt
  /\ start_state_alts_of_i1 = 2

\* the ainsn which make_automaton processes for AINSN: the first one of the
\* list of the ainsns with the same sorted alt states
same_reservs_first_insn(ainsn) ==
  CHOOSE first \in 1..Len(ainsn_list) :
    /\ ainsn_list[first].first_insn_with_same_reservs
    /\ alt_states_eq(ainsn_list[first].sorted_alt_states,
                     ainsn_list[ainsn].sorted_alt_states)

\* the reservations of the union of STATE and the first alt state of AINSN,
\* in the order of its own alternatives, not intersected with STATE
first_alternative_reservs(state, ainsn) ==
  {reserv_sets_and(
     reserv_sets_or(states[state].reservs,
                    states[ainsn_list[ainsn].alt_states[k]].reservs),
     reservs_matter) :
     k \in {j \in 1..Len(ainsn_list[ainsn].alt_states) :
              \A i \in 1..j :
                intersected_state_reservs_p(
                  heap, state, ainsn_list[ainsn].alt_states[i]) <=> i < j}}

\* C12: without -ndfa, the transition of every state by every insn, which
\* is the out arc marked by the first insn with the same reservations, enters
\* the union of the state and the first alternative of the insn itself
\* which is not intersected with the state, and there is no transition when
\* there is no such alternative.
C12_FirstAlternativeOfTheInsnItself ==
  (~ndfa_flag /\ pc = "make_automaton_loop") =>
    \A state \in processed_states, ainsn \in 1..(Len(ainsn_list) - 1) :
      {states[arc.to_state].reservs :
         arc \in arcs_marked_by(state, same_reservs_first_insn(ainsn))}
      = first_alternative_reservs(state, ainsn)

\* output_min_issue_delay_table has formed the vector
MinIssueDelayTableBuilt ==
  pc \in {"output_reserved_units_table", "done"} /\ min_issue_delay_vect # <<>>

\* the element of the table of the minimal issue delays
min_issue_delay_table_el(state, insn_equiv_class) ==
  min_issue_delay_vect[states[state].order_state_num * insn_equiv_classes_num
                       + insn_equiv_class + 1]

\* STATE has an out arc marked by an ainsn of the class
issues_class(state, insn_equiv_class) ==
  \E k \in 1..Len(states[state].first_out_arc) :
    ainsn_list[states[state].first_out_arc[k].insn].insn_equiv_class_num
    = insn_equiv_class

\* more advance cycle arcs than a path without a repeated state has
NoPath == Len(states) + 1

Min(S) == CHOOSE x \in S : \A y \in S : x <= y

\* state -> the least number of advance cycle arcs on a path of at most
\* STEPS arcs from the state to a state issuing the class, or NoPath
RECURSIVE least_advance_cycles(_, _)
least_advance_cycles(insn_equiv_class, steps) ==
  IF steps = 0
  THEN SeqOf([st \in 1..Len(states) |->
                IF issues_class(st, insn_equiv_class) THEN 0 ELSE NoPath])
  ELSE Let(least_advance_cycles(insn_equiv_class, steps - 1), LAMBDA less :
         SeqOf([st \in 1..Len(states) |->
            Min({less[st]} \cup
                {Min({NoPath,
                      less[states[st].first_out_arc[k].to_state]
                      + (IF states[st].first_out_arc[k].insn = Len(ainsn_list)
                         THEN 1 ELSE 0)}) :
                   k \in 1..Len(states[st].first_out_arc)})]))

\* C13: the element of the table of the minimal issue delays for a state and
\* an insn equivalence class is the least number of advance cycle arcs on
\* the paths from the state to a state with an out arc of the class; in
\* scenario B the element for the state {a@0} and i2 is 1.
C13_MinIssueDelayIsLeast ==
  MinIssueDelayTableBuilt =>
    /\ \A insn_equiv_class \in 0..(insn_equiv_classes_num - 1) :
         Let(least_advance_cycles(insn_equiv_class, Len(states)),
             LAMBDA least :
           \A st \in Range(pass_states(heap, start_state)) :
             least[st] # NoPath
             => min_issue_delay_table_el(st, insn_equiv_class) = least[st])
    /\ ScenarioB =>
         \A st \in Range(pass_states(heap, start_state)) :
           state_reservations(st) = {{<<0, 0>>}}
           => min_issue_delay_table_el(
                st, ainsn_list[2].insn_equiv_class_num) = 1

\* output_dfa_max_issue_rate has set max_dfa_issue_rate
MaxIssueRateSet ==
  pc \in {"output_tables", "output_state_alts_table",
          "output_min_issue_delay_table", "output_reserved_units_table",
          "done"}
  /\ ~have_error

\* the states entered from STATE by an arc which is not the one of the cycle
\* advance and does not return to STATE
issue_successors(state) ==
  {states[state].first_out_arc[k].to_state :
     k \in {j \in 1..Len(states[state].first_out_arc) :
              /\ states[state].first_out_arc[j].insn # Len(ainsn_list)
              /\ states[state].first_out_arc[j].to_state # state}}

\* the number of arcs of the longest path of such arcs from STATE which
\* enters no state of PASSED and no state twice
RECURSIVE longest_acyclic_path(_, _)
longest_acyclic_path(state, passed) ==
  MaxOf({0} \cup
        {1 + longest_acyclic_path(to_state, passed \cup {state}) :
           to_state \in issue_successors(state) \ (passed \cup {state})})

\* C14: max_dfa_issue_rate is the number of arcs of the longest acyclic path
\* which starts at any state of the automaton and has no advance cycle arc
\* and no arc from a state to itself.
C14_MaxIssueRateIsLongestPath ==
  MaxIssueRateSet =>
    max_dfa_issue_rate
    = MaxOf({longest_acyclic_path(st, {}) :
               st \in Range(pass_states(heap, start_state))})

(***************************************************************************)
(* C15: after transform_insn_regexps no transformed reservation of an      *)
(* instruction contains a reservation name node, a repetition node, or a   *)
(* `|' node below a sequence or a `+' node.                                *)
(***************************************************************************)
\* transform_insn_regexps has run
RegexpsTransformed ==
  ~have_error /\ pc \notin {"check_all_description", "transform_insn_regexps"}

\* REGEXP has a node whose mode is in MODES
RECURSIVE has_node_of_mode(_, _)
has_node_of_mode(regexp, modes) ==
  \/ regexp.mode \in modes
  \/ \E i \in 1..Len(regexp.regexps) :
        has_node_of_mode(regexp.regexps[i], modes)

\* some sequence or `+' node of REGEXP has a `|' node below it
RECURSIVE oneof_below_sequence_or_allof(_)
oneof_below_sequence_or_allof(regexp) ==
  \/ /\ regexp.mode \in {"sequence", "allof"}
     /\ \E i \in 1..Len(regexp.regexps) :
           has_node_of_mode(regexp.regexps[i], {"oneof"})
  \/ \E i \in 1..Len(regexp.regexps) :
        oneof_below_sequence_or_allof(regexp.regexps[i])

C15_TransformedRegexpIsNormal ==
  RegexpsTransformed =>
    \A i \in 1..Len(insn_decls) :
       /\ ~has_node_of_mode(insn_decls[i].transformed_regexp,
                            {"reserv", "repeat"})
       /\ ~oneof_below_sequence_or_allof(insn_decls[i].transformed_regexp)

\* an instruction whose reservation names a reservation, and holds a
\* repetition and a `|' below a sequence once the name is replaced
C15_Witness ==
  /\ RegexpsTransformed
  /\ \E i \in 1..Len(insn_decls) :
        /\ has_node_of_mode(insn_decls[i].regexp, {"reserv"})
        /\ has_node_of_mode(copy_insn_regexp(reserv_decls,
                                             insn_decls[i].regexp),
                            {"repeat"})
        /\ oneof_below_sequence_or_allof(
             copy_insn_regexp(reserv_decls, insn_decls[i].regexp))
  /\ \E i \in 1..Len(insn_decls) :
        /\ insn_decls[i].regexp.mode = "allof"
        /\ Cardinality({j \in 1..Len(insn_decls[i].regexp.regexps) :
              has_node_of_mode(
                copy_insn_regexp(reserv_decls,
                                 insn_decls[i].regexp.regexps[j]),
                {"oneof"})}) > 1

(***************************************************************************)
(* C16: at every point of a run no two different states of the state table *)
(* have equal reservation sets when both are deterministic, or equal       *)
(* sorted lists of component states when both are composed.                *)
(***************************************************************************)
interned_deterministic ==
  {s \in state_table : states[s].component_states = <<>>}
interned_composed ==
  {s \in state_table : states[s].component_states # <<>>}

C16_InternedStatesDiffer ==
  /\ \A s, t \in interned_deterministic :
        s # t => states[s].reservs # states[t].reservs
  /\ \A s, t \in interned_composed :
        s # t => states[s].component_states # states[t].component_states

\* the table holds several deterministic and several composed states, and
\* a composed node was freed because the table already had an equal state
C16_Witness ==
  /\ Cardinality(interned_deterministic) > 2
  /\ Cardinality(interned_composed) > 1
  /\ \E i \in 1..Len(free_states) :
        states[free_states[i]].component_states # <<>>

(***************************************************************************)
(* C17: the checker reports a "cycle in definition of reservation" error   *)
(* exactly when some reservation refers to itself, directly or through     *)
(* other reservations.                                                     *)
(***************************************************************************)
DescriptionChecked == pc # "check_all_description"

\* the reservations which the definition of the reservation R names
named_reservs(r) == regexp_reserv_decls(reserv_decls[r].regexp)

\* the reservations reached from those of the set S
RECURSIVE reached_reservs(_)
reached_reservs(S) ==
  IF UNION {named_reservs(r) : r \in S} \subseteq S THEN S
  ELSE reached_reservs(S \cup UNION {named_reservs(r) : r \in S})

refers_to_itself(r) == r \in reached_reservs(named_reservs(r))

C17_CycleErrorIffCycle ==
  DescriptionChecked =>
    /\ reported_cycles # {}
         <=> \E r \in 1..Len(reserv_decls) : refers_to_itself(r)
    /\ reported_cycles # {} => have_error

\* a reported reservation which refers to itself only through another one
C17_Witness ==
  /\ DescriptionChecked
  /\ \E r \in 1..Len(reserv_decls) :
        /\ reserv_decls[r].name \in reported_cycles
        /\ r \notin named_reservs(r)

(***************************************************************************)
(* C18: when the checker reports an error, the transformer and the later   *)
(* phases are not run and no table is written: the run ends with the step  *)
(* of the checker, with no reservation transformed, no state created and   *)
(* every table empty.                                                      *)
(***************************************************************************)
NothingGenerated ==
  /\ \A i \in 1..Len(insn_decls) : insn_decls[i].transformed_regexp = Nothing
  /\ Len(insn_decls) = description.insns_num
  /\ ainsn_list = <<>> /\ states = <<>> /\ state_table = {}
  /\ start_state = NULL

NothingWritten ==
  /\ trans_table = NoTable /\ state_alts_table = NoTable
  /\ min_issue_delay_vect = <<>> /\ reserved_units_table = <<>>
  /\ max_dfa_issue_rate = 0

C18_CheckerErrorHalts ==
  [][/\ (pc = "check_all_description" /\ have_error')
          => (pc' = "done" /\ NothingGenerated' /\ NothingWritten')
     /\ pc # "done"]_vars

\* the run of Scenario F has ended with the cycle error
C18_Witness ==
  /\ description.decls = ScenarioPool[2]
  /\ reported_cycles # {} /\ have_error /\ pc = "done"
  /\ NothingGenerated /\ NothingWritten

(***************************************************************************)
(* C19: two instructions of different equivalence classes differ in some   *)
(* state: one has an out arc and the other has none, or their out arcs     *)
(* lead to different states.  The out arcs of an instruction are those     *)
(* marked by the first instruction with the same reservations.             *)
(***************************************************************************)
\* the destinations of the out arcs of STATE for AINSN, {} when none
arc_signature(state, ainsn) ==
  {arc.to_state : arc \in arcs_marked_by(state, same_reservs_first_insn(ainsn))}

C19_DifferentClassesDifferentArcs ==
  InsnClassesSet =>
    \A i, j \in 1..Len(ainsn_list) :
       ainsn_list[i].insn_equiv_class_num # ainsn_list[j].insn_equiv_class_num
       => \E state \in Range(pass_states(heap, start_state)) :
             arc_signature(state, i) # arc_signature(state, j)

\* three classes or more, two of them with instructions which the start
\* state does not tell apart
C19_Witness ==
  /\ InsnClassesSet
  /\ insn_equiv_classes_num > 2
  /\ \E i, j \in 1..Len(ainsn_list) :
        /\ ainsn_list[i].insn_equiv_class_num
             # ainsn_list[j].insn_equiv_class_num
        /\ arc_signature(start_state, i) = arc_signature(start_state, j)

(***************************************************************************)
(* C20: the bit of the reserved units table for a state and a query unit   *)
(* is 1 exactly when the unit is reserved on cycle 0 of the state, and for *)
(* a composed or merged state exactly when it is reserved on cycle 0 of    *)
(* every deterministic state which the state stands for.                   *)
(***************************************************************************)
ReservedUnitsTableBuilt ==
  pc = "done" /\ ~have_error /\ min_issue_delay_vect # <<>>

\* the bit of the table for STATE and the unit with UNIT_NUM
reserved_units_table_bit(state, unit_num) ==
  (reserved_units_table[
      states[state].order_state_num
        * ((description.query_units_num + 7) \div 8)
      + (units_array[unit_num + 1].query_num \div 8) + 1]
   \div 2 ^ (units_array[unit_num + 1].query_num % 8)) % 2

\* the deterministic states which STATE was composed or merged from
RECURSIVE original_states(_)
original_states(state) ==
  IF states[state].component_states = <<>> THEN {state}
  ELSE UNION {original_states(states[state].component_states[k]) :
                k \in 1..Len(states[state].component_states)}

C20_ReservedUnitsBitIsCycle0 ==
  ReservedUnitsTableBuilt =>
    \A state \in Range(pass_states(heap, start_state)),
       unit_num \in {i \in 0..(description.units_num - 1) :
                       units_array[i + 1].query_p} :
      \A original \in original_states(state) :
        reserved_units_table_bit(state, unit_num) = 1
          <=> test_unit_reserv(states[original].reservs, 0, unit_num)

(***************************************************************************)
(* C21: the transition table.                                              *)
(***************************************************************************)
\* the order numbers of the destinations of the out arcs of STATE marked by
\* the ainsns of the class INSN_EQUIV_CLASS
class_arc_destinations(state, insn_equiv_class) ==
  {states[states[state].first_out_arc[k].to_state].order_state_num :
     k \in {j \in 1..Len(states[state].first_out_arc) :
              ainsn_list[states[state].first_out_arc[j].insn]
                .insn_equiv_class_num = insn_equiv_class}}

\* C21: for every state and every insn equivalence class the element of the
\* transition table is the order number of the destination of the arc of
\* the state for the class when there is such an arc, and
\* achieved_states_num when the state has no arc for the class.
C21_TransTableElIsArcDestination ==
  TablesBuilt =>
    \A state \in Range(pass_states(heap, start_state)),
       insn_equiv_class \in 0..(insn_equiv_classes_num - 1) :
      LET el == output_automata_list_transition_code(
                  trans_table, states[state].order_state_num,
                  insn_equiv_class)
          full_el == trans_table.full_vect[
                       insn_equiv_class
                       + states[state].order_state_num
                         * insn_equiv_classes_num + 1]
          dests == class_arc_destinations(state, insn_equiv_class)
      IN /\ el = full_el
         /\ IF dests = {} THEN el = achieved_states_num
            ELSE dests = {el} /\ el < achieved_states_num

\* a table of several states where some state has an arc for a class to a
\* state other than itself and some state has no arc for a class
C21_Witness ==
  /\ TablesBuilt
  /\ achieved_states_num > 1
  /\ \E state \in Range(pass_states(heap, start_state)),
        insn_equiv_class \in 0..(insn_equiv_classes_num - 1) :
       /\ class_arc_destinations(state, insn_equiv_class) # {}
       /\ states[state].order_state_num
          \notin class_arc_destinations(state, insn_equiv_class)
  /\ \E state \in Range(pass_states(heap, start_state)),
        insn_equiv_class \in 0..(insn_equiv_classes_num - 1) :
       class_arc_destinations(state, insn_equiv_class) = {}

(***************************************************************************)
(* C22: the unique numbers of the states given by get_free_state.          *)
(***************************************************************************)
\* C22 as stated: the state given by every call of get_free_state, a new
\* node or a node of free_states, has a unique_num different from the
\* unique_num of the state given by every earlier call.
C22_GotStateNumDiffersFromEarlier ==
  \A i, j \in 1..Len(got_free_states) :
    i < j => got_free_states[i].unique_num # got_free_states[j].unique_num

\* C22: the state given by every call of get_free_state has a unique_num
\* different from the unique_num of every other node given by an earlier
\* call; a node taken from free_states is a node given and freed earlier
\* and has the unique_num it was created with.
C22_GotStateNumDiffersFromOtherNodes ==
  \A i, j \in 1..Len(got_free_states) :
    i < j =>
      (got_free_states[i].state = got_free_states[j].state
       <=> got_free_states[i].unique_num = got_free_states[j].unique_num)

\* a node of free_states has been given again while other nodes are in use
C22_Witness ==
  /\ \E i, j \in 1..Len(got_free_states) :
       i < j /\ got_free_states[i].state = got_free_states[j].state
  /\ Cardinality(state_table) > 1

(***************************************************************************)
(* C23: the reservations of the start state.                               *)
(***************************************************************************)
\* make_automaton has made the start state
StartStateMade == start_state # NULL

\* merge_states has made the states of the equivalence classes
StatesMerged ==
  /\ ~no_minimization_flag
  /\ pc \notin {"make_automaton_loop", "NDFA_to_DFA",
                "evaluate_equiv_classes", "merge_states"}

\* C23 as stated: after make_automaton, after NDFA_to_DFA and after
\* minimize_DFA the start state has no unit reserved on any cycle.
C23_StartStateReservsEmpty ==
  StartStateMade => state_reservations(start_state) = {{}}

\* C23: after make_automaton and after NDFA_to_DFA the start state is a
\* deterministic state with no unit reserved on any cycle; after
\* minimize_DFA it is the state of the equivalence class of that state:
\* that state itself, or a composed state with that state among its
\* components.
C23_StartStateHasEmptyComponent ==
  StartStateMade =>
    /\ {} \in state_reservations(start_state)
    /\ ~StatesMerged => /\ states[start_state].component_states = <<>>
                        /\ states[start_state].reservs = {}
    /\ states[start_state].component_states # <<>> =>
         /\ dfa_start \in Range(states[start_state].component_states)
         /\ states[dfa_start].reservs = {}
         /\ \E k \in 1..Len(equiv_classes) :
              /\ dfa_start \in Range(equiv_classes[k])
              /\ Len(equiv_classes[k]) > 1

\* minimize_DFA has merged the start state with a state with reservations
C23_Witness ==
  /\ StartStateMade
  /\ StatesMerged
  /\ states[start_state].component_states # <<>>
  /\ state_reservations(start_state) # {{}}

(***************************************************************************)
(* C24: scenario A.                                                        *)
(***************************************************************************)
\* units a (alu) and b (mul), insn i1 (add) reserves a, i2 (imul) reserves b
ScenarioA == description.decls = MkDecls(<<>>, <<1, 2>>)

\* the reservations of the states achieved from the start state
achieved_reservs ==
  {states[st].reservs : st \in Range(pass_states(heap, start_state))}

\* C24 as stated: in scenario A the automaton has 2 states achieved from the
\* start state before minimize_DFA.
C24_ScenarioA_TwoStates ==
  (ScenarioA /\ BuilderFinished) =>
    Len(pass_states(heap, start_state)) = 2

\* C24: in scenario A the automaton has 4 states achieved from the start
\* state before minimize_DFA: no unit, a, b, and both a and b reserved on
\* the first cycle.
C24_ScenarioA_FourStates ==
  (ScenarioA /\ BuilderFinished) =>
    /\ Len(pass_states(heap, start_state)) = 4
    /\ achieved_reservs = {{}, {<<0, 0>>}, {<<0, 1>>}, {<<0, 0>>, <<0, 1>>}}

\* scenario A built: i2 has been issued after i1 on the same cycle
C24_Witness ==
  /\ ScenarioA
  /\ BuilderFinished
  /\ \E st \in Range(pass_states(heap, start_state)) :
       /\ states[st].reservs = {<<0, 0>>}
       /\ \E arc \in arcs_marked_by(st, 2) :
            states[arc.to_state].reservs = {<<0, 0>>, <<0, 1>>}

(***************************************************************************)
(* C25: NDFA_to_DFA keeps the sequences of insns which can be issued.      *)
(***************************************************************************)
\* the states the arcs of ARCS marked by AINSN enter
arc_destinations(arcs, ainsn) ==
  {arcs[k].to_state : k \in {j \in 1..Len(arcs) : arcs[j].insn = ainsn}}

\* the states of the NDFA entered from a state of the set S by AINSN
ndfa_destinations(S, ainsn) ==
  UNION {arc_destinations(ndfa_arcs[st], ainsn) : st \in S}

\* the pairs <<set of states of the NDFA, state of the DFA>> one insn
\* further than the pairs of REACHED
subset_step(reached) ==
  reached \cup
    UNION {{<<ndfa_destinations(x[1][1], x[2]), to_state>> :
              to_state \in arc_destinations(states[x[1][2]].first_out_arc,
                                            x[2])} :
           x \in {y \in reached \X (1..Len(ainsn_list)) :
                    ndfa_destinations(y[1][1], y[2]) # {}}}

\* the pairs <<states the NDFA may be in, state the DFA is in>> after the
\* same sequence of insns
RECURSIVE subset_pairs(_)
subset_pairs(reached) ==
  IF subset_step(reached) = reached THEN reached
  ELSE subset_pairs(subset_step(reached))

\* NDFA_to_DFA has finished under -ndfa
DFAFormed == BuilderFinished /\ ndfa_flag

\* C25: under -ndfa, after the same sequence of insns and cycle advances the
\* DFA made by NDFA_to_DFA can issue an insn exactly when the NDFA made by
\* make_automaton can issue it in some of the states it may be in, so the
\* sequences issued from the start state are the same; and a composed state
\* has an out arc marked by an insn exactly when some of its component
\* states had one in the NDFA.
C25_DFAIssuesWhatNDFAIssues ==
  DFAFormed =>
    /\ \A p \in subset_pairs({<<{start_state}, start_state>>}),
          ainsn \in 1..Len(ainsn_list) :
         ndfa_destinations(p[1], ainsn) # {}
         <=> arc_destinations(states[p[2]].first_out_arc, ainsn) # {}
    /\ \A state \in Range(pass_states(heap, start_state)),
          ainsn \in 1..Len(ainsn_list) :
         states[state].component_states # <<>> =>
           (arc_destinations(states[state].first_out_arc, ainsn) # {}
            <=> \E comp \in Range(states[state].component_states) :
                  arc_destinations(ndfa_arcs[comp], ainsn) # {})

\* a composed state is reached whose component states do not issue the same
\* insns
C25_Witness ==
  /\ DFAFormed
  /\ \E p \in subset_pairs({<<{start_state}, start_state>>}) :
       /\ states[p[2]].component_states # <<>>
       /\ Cardinality(p[1]) > 1
       /\ \E st_1, st_2 \in p[1], ainsn \in 1..Len(ainsn_list) :
            /\ arc_destinations(ndfa_arcs[st_1], ainsn) # {}
            /\ arc_destinations(ndfa_arcs[st_2], ainsn) = {}

(***************************************************************************)
(* C26: reservs_matter.  The automaton is built once more with every       *)
(* reservation kept by states_union and state_shift, and compared with     *)
(* the automaton of the program.                                           *)
(***************************************************************************)
\* every cycle and unit of a reservation set
all_reservs == (0..(max_cycles_num - 1)) \X (0..(Len(units_array) - 1))

\* the heap before create_alt_states, with the reservations to keep
initial_heap(reservs) ==
  [states |-> <<>>, free_states |-> <<>>, state_table |-> {},
   got_free_states |-> <<>>, reservs_matter |-> reservs]

\* the loop of make_automaton over the stack
RECURSIVE make_automaton_loop(_, _)
make_automaton_loop(h, stack) ==
  IF stack = <<>> THEN h
  ELSE Let(make_automaton_state(h, SubSeq(stack, 1, Len(stack) - 1),
                                stack[Len(stack)]),
           LAMBDA r : make_automaton_loop(r.h, r.state_stack))

\* the loop of NDFA_to_DFA over the stack
RECURSIVE NDFA_to_DFA_loop(_, _)
NDFA_to_DFA_loop(h, stack) ==
  IF stack = <<>> THEN h
  ELSE Let(NDFA_to_DFA_state(h, SubSeq(stack, 1, Len(stack) - 1),
                             stack[Len(stack)]),
           LAMBDA r : NDFA_to_DFA_loop(r.h, r.state_stack))

\* create_alt_states, make_automaton and NDFA_to_DFA with the reservations
\* RESERVS kept: the heap and the start state
build_automaton(reservs) ==
  Let(create_alt_states(initial_heap(reservs), insn_decls,
                        create_ainsns(insn_decls)).h, LAMBDA h0 :
  Let(get_free_state(h0, TRUE), LAMBDA f :
  Let(insert_state(f.h, f.result), LAMBDA x :
  Let(make_automaton_loop(
        [x.h EXCEPT
           !.states[x.result].it_was_placed_in_stack_for_NDFA_forming = TRUE],
        <<x.result>>), LAMBDA h1 :
    [h |-> NDFA_to_DFA_loop(
             [h1 EXCEPT
                !.states[x.result].it_was_placed_in_stack_for_DFA_forming
                  = TRUE],
             <<x.result>>),
     start_state |-> x.result]))))

\* the loop of evaluate_equiv_classes: the heap and the classes
RECURSIVE evaluate_equiv_classes_loop(_, _, _, _, _)
evaluate_equiv_classes_loop(h, achieved, classes, num, odd) ==
  Let(evaluate_equiv_classes_iteration(h, achieved, classes, num, ~odd),
      LAMBDA r :
        IF r.finish_flag THEN [h |-> r.h, classes |-> classes]
        ELSE evaluate_equiv_classes_loop(r.h, achieved, r.classes,
                                         r.new_equiv_class_num, ~odd))

\* minimize_DFA of the automaton A: the heap and the start state
minimize_DFA(a) ==
  Let(pass_states(a.h, a.start_state), LAMBDA all_achieved_states :
  Let(evaluate_equiv_classes_loop(
        [a.h EXCEPT !.states =
           SeqOf([st \in 1..Len(@) |->
              IF st \in Range(all_achieved_states)
              THEN [@[st] EXCEPT !.equiv_class_num_1 = 1]
              ELSE @[st]])],
        all_achieved_states, <<init_equiv_class(all_achieved_states)>>,
        1, FALSE), LAMBDA e :
    merge_states(e.h, e.classes, a.start_state)))

\* the pairs <<state of the automaton of the program, state of the
\* automaton A>> one insn further than the pairs of REACHED
automata_step(a, reached) ==
  reached \cup
    UNION {arc_destinations(states[p[1]].first_out_arc, ainsn)
           \X arc_destinations(a.h.states[p[2]].first_out_arc, ainsn) :
             <<p, ainsn>> \in reached \X (1..Len(ainsn_list))}

\* the pairs of states the two automata reach by the same sequence of insns
RECURSIVE automata_pairs(_, _)
automata_pairs(a, reached) ==
  IF automata_step(a, reached) = reached THEN reached
  ELSE automata_pairs(a, automata_step(a, reached))

\* the insn and the state_alts of every out arc
arc_marks(arcs) ==
  {<<arcs[k].insn, arcs[k].state_alts>> : k \in 1..Len(arcs)}

\* the automaton of the program and the automaton A issue the same
\* sequences of insns from their start states
same_sequences(a) ==
  \A p \in automata_pairs(a, {<<start_state, a.start_state>>}) :
    issued_insns(states[p[1]].first_out_arc)
    = issued_insns(a.h.states[p[2]].first_out_arc)

\* the automaton of the program and the automaton A are the same but for
\* the names of the states
same_automaton(a) ==
  Let(automata_pairs(a, {<<start_state, a.start_state>>}), LAMBDA pairs :
    /\ \A p \in pairs :
         arc_marks(states[p[1]].first_out_arc)
         = arc_marks(a.h.states[p[2]].first_out_arc)
    /\ \A p, q \in pairs : p[1] = q[1] <=> p[2] = q[2])

\* C26: the automaton built with reservs_matter issues from the start
\* state the same sequences of insns and cycle advances as the automaton
\* built with every reservation kept by states_union and state_shift, and
\* minimize_DFA makes the same automaton of both.
C26_ReservsMatterKeepsAutomaton ==
  /\ BuilderFinished => same_sequences(build_automaton(all_reservs))
  /\ Minimized => same_automaton(minimize_DFA(build_automaton(all_reservs)))

(***************************************************************************)
(* C27: the alt states of an insn and the reservations its regexp denotes. *)
(***************************************************************************)
\* The reservations REGEXP denotes when it starts on START_CYCLE, each with
\* the cycle it finishes on: a unit is reserved on the start cycle, the
\* elements of a sequence (of a repetition) start on the cycle after the
\* one the element before finishes on, the operands of an allof all start
\* on the start cycle and the allof finishes with the last of them, a oneof
\* is one of its operands, a reservation name is its definition.
RECURSIVE footprints(_, _)
footprints(regexp, start_cycle) ==
  IF regexp.mode = "unit"
  THEN {[reservs |-> {<<start_cycle, regexp.unit_decl - 1>>},
         finish_cycle |-> start_cycle]}
  ELSE IF regexp.mode = "reserv"
  THEN footprints(reserv_decls[regexp.reserv_decl].regexp, start_cycle)
  ELSE IF regexp.mode = "oneof"
  THEN UNION {footprints(regexp.regexps[i], start_cycle) :
                i \in 1..Len(regexp.regexps)}
  ELSE IF regexp.mode \in {"sequence", "repeat"}
  THEN LET els == IF regexp.mode = "repeat"
                  THEN SeqOf([i \in 1..regexp.repeat_num |->
                                regexp.regexps[1]])
                  ELSE regexp.regexps
       IN FoldSeq(LAMBDA fs, k :
                    UNION {{[reservs |-> f.reservs \cup g.reservs,
                             finish_cycle |-> g.finish_cycle] :
                              g \in footprints(els[k],
                                               IF k = 1 THEN start_cycle
                                               ELSE f.finish_cycle + 1)} :
                           f \in fs},
                  {[reservs |-> {}, finish_cycle |-> start_cycle]},
                  SeqOf([k \in 1..Len(els) |-> k]))
  ELSE IF regexp.mode = "allof"
  THEN FoldSeq(LAMBDA fs, el :
                 {[reservs |-> f.reservs \cup g.reservs,
                   finish_cycle |-> Max(f.finish_cycle, g.finish_cycle)] :
                    f \in fs, g \in footprints(el, start_cycle)},
               {[reservs |-> {}, finish_cycle |-> start_cycle]},
               regexp.regexps)
  ELSE {[reservs |-> {}, finish_cycle |-> start_cycle]}

\* create_alt_states has formed the alt states of the ainsns
AltStatesCreated ==
  pc \notin {"check_all_description", "transform_insn_regexps", "generate",
             "create_alt_states"}
  /\ ainsn_list # <<>>

\* the reservations of the alt states of AINSN
alt_state_reservs(ainsn) ==
  {states[ainsn_list[ainsn].alt_states[k]].reservs :
     k \in 1..Len(ainsn_list[ainsn].alt_states)}

\* C27: the reservations of the alt states of every insn formed by
\* create_alt_states from the transformed regexp are the reservations the
\* regexp of the insn denotes.
C27_AltStatesAreFootprints ==
  AltStatesCreated =>
    \A ainsn \in 1..(Len(ainsn_list) - 1) :
      alt_state_reservs(ainsn)
      = {f.reservs : f \in footprints(insn_decls[ainsn].regexp, 0)}

(***************************************************************************)
(* C28: minimize_DFA leaves no two equivalent states.                      *)
(***************************************************************************)
\* what is seen of STATE without issuing an insn: the insn and state_alts
\* of its out arcs and the query units reserved on the first cycle
state_marks(state) ==
  <<arc_marks(states[state].first_out_arc), query_units_presence(state)>>

\* the pairs of states told apart by one insn more than the pairs of D
differed_step(S, D) ==
  D \cup {p \in S \X S :
            \E ainsn \in 1..Len(ainsn_list) :
              (arc_destinations(states[p[1]].first_out_arc, ainsn)
               \X arc_destinations(states[p[2]].first_out_arc, ainsn))
              \cap D # {}}

RECURSIVE differed_closure(_, _)
differed_closure(S, D) ==
  IF differed_step(S, D) = D THEN D
  ELSE differed_closure(S, differed_step(S, D))

\* the pairs of states of S which differ after some sequence of insns
differed_states(S) ==
  differed_closure(S, {p \in S \X S : state_marks(p[1]) # state_marks(p[2])})

\* C28: after minimize_DFA every two distinct states achieved from the
\* start state differ, after some common sequence of insns, in the insns
\* of their out arcs, in the state_alts of an arc or in the first cycle
\* reservation of a query unit.
C28_MinimizedStatesDiffer ==
  Minimized =>
    LET S == Range(pass_states(heap, start_state))
    IN \A state_1, state_2 \in S :
         state_1 # state_2 => <<state_1, state_2>> \in differed_states(S)

\* minimize_DFA has merged states, and two of the states it left differ
\* only after an insn is issued
C28_Witness ==
  /\ Minimized
  /\ \E k \in 1..Len(equiv_classes) : Len(equiv_classes[k]) > 1
  /\ \E state_1, state_2 \in Range(pass_states(heap, start_state)) :
       /\ state_1 # state_2
       /\ state_marks(state_1) = state_marks(state_2)

(***************************************************************************)
(* C29: cycle advances lead to the start state.                            *)
(***************************************************************************)
\* the automaton is built: by make_automaton and NDFA_to_DFA, by
\* minimize_DFA, or as it is written
AutomatonBuilt ==
  \/ BuilderFinished
  \/ pc \in {"enumerate_states", "set_insn_equiv_classes",
             "check_automata_insn_issues", "output_dfa_max_issue_rate",
             "output_tables", "output_state_alts_table",
             "output_min_issue_delay_table", "output_reserved_units_table"}
  \/ pc = "done" /\ ~have_error

\* the states entered from STATE by N arcs of the cycle advancing
RECURSIVE advance_cycles(_, _)
advance_cycles(S, n) ==
  IF n = 0 THEN S
  ELSE advance_cycles(
         UNION {arc_destinations(states[st].first_out_arc, Len(ainsn_list)) :
                  st \in S}, n - 1)

\* C29: from every state achieved from the start state, max_cycles_num
\* arcs of the cycle advancing in a row lead to the start state.
C29_AdvanceCyclesLeadToStart ==
  AutomatonBuilt =>
    \A state \in Range(pass_states(heap, start_state)) :
      advance_cycles({state}, max_cycles_num) = {start_state}

\* some state is not left for the start state by fewer cycle advances
C29_Witness ==
  /\ AutomatonBuilt
  /\ max_cycles_num > 1
  /\ \E state \in Range(pass_states(heap, start_state)) :
       /\ start_state \notin advance_cycles({state}, max_cycles_num - 1)
       /\ advance_cycles({state}, max_cycles_num) = {start_state}


(***************************************************************************)
(* C30: when the generation finishes without error, every insn can be      *)
(* issued after any reachable state: for every reachable state and every   *)
(* insn equivalence class there is a path from the state to a state with   *)
(* an out arc of the class, and no element of the table of the minimal     *)
(* issue delays is -1.                                                     *)
(***************************************************************************)
\* every reachable state has a path to a state issuing the class and its
\* element of the table of the minimal issue delays is not -1
every_class_is_issued ==
  \A insn_equiv_class \in 0..(insn_equiv_classes_num - 1) :
    Let(least_advance_cycles(insn_equiv_class, Len(states)), LAMBDA least :
      \A st \in Range(pass_states(heap, start_state)) :
        /\ least[st] # NoPath
        /\ min_issue_delay_table_el(st, insn_equiv_class) # -1)

internal_min_issue_delay(chip_state, insn_class) ==
  LET factor == min_issue_delay_table_compression_factor
      temp ==
        range_type_value(
          output_range_type(0, max_min_delay),
          compressed_min_issue_delay_vect[
            IF factor = 1
            THEN insn_class + chip_state * insn_equiv_classes_num + 1
            ELSE (insn_class + chip_state * insn_equiv_classes_num)
                 \div factor + 1])
  IN IF factor = 1 THEN temp
     ELSE (temp \div 2 ^ (8 - ((insn_class % factor) + 1) * (8 \div factor)))
          % 2 ^ (8 \div factor)

C31_LookupGivesMinIssueDelay ==
  MinIssueDelayTableBuilt =>
    \A insn_equiv_class \in 0..(insn_equiv_classes_num - 1) :
      \A st \in Range(pass_states(heap, start_state)) :
        internal_min_issue_delay(states[st].order_state_num,
                                 insn_equiv_class)
        = min_issue_delay_table_el(st, insn_equiv_class)


(***************************************************************************)
(* C32: when the transition table is output as a full vector, the C type   *)
(* chosen for its elements holds every element of the vector, the value    *)
(* achieved_states_num of the undefined elements included, so that the     *)
(* test `element >= achieved_states_num' of the emitted code is true       *)
(* exactly for the states and the insn equivalence classes without an arc. *)
(* The types differ for the automata with 256 and more states, so the      *)
(* table encoder is run on the automata below.                             *)
(***************************************************************************)
\* the greatest number of states of the automata given to the table encoder
MaxStatesNum == 257

\* the enumerated states of the deterministic automaton of one insn with
\* the reservation `u1 | u2 | ... ' of n - 1 units: the state of the order
\* number k has reserved the first k units, the insn reserves the next free
\* unit and the cycle advance frees all of them
chain_states(n) ==
  SeqOf([k \in 1..n |->
           [NewState(k - 1) EXCEPT
              !.reservs = {<<0, u>> : u \in 0..(k - 2)},
              !.order_state_num = k - 1,
              !.first_out_arc =
                 (IF k < n
                  THEN <<[to_state |-> k + 1, insn |-> 1, state_alts |-> 1]>>
                  ELSE <<>>)
                 \o <<[to_state |-> 1, insn |-> 2, state_alts |-> 1]>>]])

\* its ainsns: the insn and the cycle advance, each a class of its own
chain_ainsns ==
  SeqOf([i \in 1..2 |->
           [NewAinsn(i) EXCEPT
              !.first_insn_with_same_reservs = TRUE,
              !.arc_exists_p = TRUE,
              !.insn_equiv_class_num = i - 1,
              !.first_ainsn_with_given_equialence_num = TRUE]])

\* output_trans_table has created the table and sorted the states of such
\* an automaton
TransTableInit ==
  /\ \E n \in (MaxStatesNum - 3)..MaxStatesNum :
       /\ states = chain_states(n)
       /\ achieved_states_num = n
       /\ output_states_vect = SeqOf([k \in 1..n |-> k])
  /\ ainsn_list = chain_ainsns
  /\ insn_equiv_classes_num = 2
  /\ start_state = 1
  /\ trans_table = create_state_ainsn_table(achieved_states_num)
  /\ pc = "output_tables"
  /\ description = [decls |-> <<>>, units_num |-> 0, insns_num |-> 0,
                    max_insn_reserv_cycles |-> 1, query_units_num |-> 0]
  /\ ndfa_flag = FALSE
  /\ w_flag = FALSE
  /\ transformed_insns_num = 0
  /\ regexp_transformed_p = FALSE
  /\ no_minimization_flag = TRUE
  /\ units_array = <<>>
  /\ insn_decls = <<>>
  /\ reserv_decls = <<>>
  /\ reported_cycles = {}
  /\ have_error = FALSE
  /\ max_cycles_num = 1
  /\ free_states = <<>>
  /\ got_free_states = <<>>
  /\ state_table = {}
  /\ state_stack = <<>>
  /\ reservs_matter = {}
  /\ tried = {}
  /\ ndfa_arcs = <<>>
  /\ dfa_start = 1
  /\ dfa_arcs = <<>>
  /\ equiv_classes = <<>>
  /\ next_iteration_classes = <<>>
  /\ new_equiv_class_num = 0
  /\ odd_iteration_flag = FALSE
  /\ state_alts_table = NoTable
  /\ max_dfa_issue_rate = 0
  /\ min_issue_delay_vect = <<>>
  /\ max_min_delay = 0
  /\ min_issue_delay_table_compression_factor = 0
  /\ compressed_min_issue_delay_vect = <<>>
  /\ reserved_units_table = <<>>

\* one pass of the loop of output_trans_table over the sorted states
output_trans_table_state ==
  /\ pc = "output_tables"
  /\ output_states_vect # <<>>
  /\ \E st \in {Head(output_states_vect)} :
       trans_table' =
         add_vect(trans_table, states[st].order_state_num,
                  state_vect(st,
                             LAMBDA arc : states[arc.to_state].order_state_num,
                             achieved_states_num),
                  achieved_states_num)
  /\ output_states_vect' = Tail(output_states_vect)
  /\ pc' = IF output_states_vect' = <<>> THEN "output_state_alts_table"
           ELSE pc
  /\ UNCHANGED <<description, units_array, insn_decls, have_error, ndfa_flag,
                 no_minimization_flag, max_cycles_num, states, free_states,
                 state_table, ainsn_list, start_state, state_stack,
                 reservs_matter, tried, ndfa_arcs, dfa_start, dfa_arcs,
                 equiv_classes, next_iteration_classes, new_equiv_class_num,
                 odd_iteration_flag, achieved_states_num,
                 insn_equiv_classes_num, state_alts_table,
                 max_dfa_issue_rate, min_issue_delay_vect,
                 reserved_units_table, reserv_decls, reported_cycles,
                 got_free_states, w_flag,
                 transformed_insns_num, regexp_transformed_p,
                 max_min_delay, min_issue_delay_table_compression_factor,
                 compressed_min_issue_delay_vect>>

TransTableSpec == TransTableInit /\ [][output_trans_table_state]_vars

\* the transition table is formed and is output as a full vector
FullTransTableOutput ==
  /\ pc = "output_state_alts_table"
  /\ ~have_error
  /\ ~comb_vect_p(trans_table)

C32_FullVectTypeHoldsElements ==
  FullTransTableOutput =>
    /\ \A i \in 1..Len(trans_table.full_vect) :
         range_type_value(
           output_range_type(trans_table.min_comb_vect_el_value,
                             trans_table.max_comb_vect_el_value),
           trans_table.full_vect[i])
         = trans_table.full_vect[i]
    /\ \A st \in 1..Len(states),
          insn_equiv_class \in 0..(insn_equiv_classes_num - 1) :
         (full_vect_transition(trans_table, states[st].order_state_num,
                               insn_equiv_class) >= achieved_states_num)
         <=> ~issues_class(st, insn_equiv_class)


(***************************************************************************)
(* C33: when the checker has processed the presence declarations, every    *)
(* pattern of a presence set of a unit is in the presence list of the unit *)
(* and every pattern of a final presence set is in its final presence      *)
(* list; adding a pattern removes no pattern added before and puts no      *)
(* pattern into the other list.                                            *)
(***************************************************************************)
\* the patterns, as the unit declarations they name, which the presence
\* sets (the final ones with FINAL_P) of the description declare for UNIT
declared_presence_patterns(unit, final_p) ==
  UNION {Range(process_presence_absence_patterns(units_array,
                                                 d.patterns).list) :
           d \in {e \in Range(description.decls) :
                    /\ e.mode = "presence"
                    /\ e.final_p = final_p
                    /\ unit \in Range(process_presence_absence_names(
                                        units_array, e.names).list)}}

\* the checker has found no error in the description
DescriptionAccepted == DescriptionChecked /\ ~have_error

C33_PresencePatternsKeptInTheirList ==
  DescriptionAccepted =>
    \A unit \in 1..Len(units_array) :
      /\ Range(units_array[unit].presence_list)
         = declared_presence_patterns(unit, FALSE)
      /\ Range(units_array[unit].final_presence_list)
         = declared_presence_patterns(unit, TRUE)


(***************************************************************************)
(* C34: reserv_sets_shift gives a reservation set whose bit of a unit on   *)
(* every cycle below the last one is the bit of the unit on the next cycle *)
(* of the operand, and whose bits of the last cycle are the bits of the    *)
(* last cycle of the operand.                                              *)
(***************************************************************************)
\* the reservation sets of the states formed so far
formed_reservs == {states[st].reservs : st \in 1..Len(states)}

\* the bits of RESULT below the last cycle are the bits of OPERAND on the
\* next cycle
shifted_below_last_cycle(result, operand) ==
  \A cycle \in 0..(max_cycles_num - 2),
     unit_num \in 0..(description.units_num - 1) :
    test_unit_reserv(result, cycle, unit_num)
    <=> test_unit_reserv(operand, cycle + 1, unit_num)

\* the bits of the last cycle of the reservation sets A and B are the same
same_last_cycle(a, b) ==
  cycle_reserv(a, max_cycles_num - 1) = cycle_reserv(b, max_cycles_num - 1)

C34_ShiftKeepsLastCycleOfOperand ==
  max_cycles_num > 0 =>
    \A operand \in formed_reservs :
      /\ shifted_below_last_cycle(reserv_sets_shift({}, operand), operand)
      /\ same_last_cycle(reserv_sets_shift({}, operand), operand)

\* C34 as the code has it: the bits of the last cycle are the bits which
\* the result had before the call; state_shift shifts into the cleared
\* reservs of a state of get_free_state, so they are all zero there.
C34_ShiftKeepsLastCycleOfResult ==
  max_cycles_num > 0 =>
    \A operand \in formed_reservs :
      /\ \A result \in formed_reservs :
           /\ shifted_below_last_cycle(reserv_sets_shift(result, operand),
                                       operand)
           /\ same_last_cycle(reserv_sets_shift(result, operand), result)
      /\ cycle_reserv(reserv_sets_shift({}, operand), max_cycles_num - 1)
         = {}

\* a state with reservations on the last of several cycles has got the arc
\* of the cycle advancing
C34_Witness ==
  /\ max_cycles_num > 1
  /\ \E st \in 1..Len(states) :
       /\ cycle_reserv(states[st].reservs, max_cycles_num - 1) # {}
       /\ \E k \in 1..Len(states[st].first_out_arc) :
            /\ states[st].first_out_arc[k].insn = Len(ainsn_list)
            /\ states[states[st].first_out_arc[k].to_state].reservs
               = reserv_sets_and(reserv_sets_shift({}, states[st].reservs),
                                 reservs_matter)


(***************************************************************************)
(* C35: every state achieved from the start state has exactly one out arc  *)
(* of the cycle advancing, when make_automaton has finished, when          *)
(* NDFA_to_DFA has finished and after minimize_DFA; before the             *)
(* minimization the arc of a state which is not composed enters the state  *)
(* whose reservations are the shifted reservations of the state masked by  *)
(* reservs_matter.                                                         *)
(***************************************************************************)
\* the out arcs of ARCS marked by the cycle advancing
advance_cycle_arcs(arcs) ==
  {k \in 1..Len(arcs) : arcs[k].insn = Len(ainsn_list)}

\* the states of the automaton made by make_automaton achieved from S
RECURSIVE ndfa_achieved_states(_)
ndfa_achieved_states(S) ==
  Let(S \cup UNION {{ndfa_arcs[st][k].to_state : k \in 1..Len(ndfa_arcs[st])} :
                      st \in S},
      LAMBDA T : IF T = S THEN S ELSE ndfa_achieved_states(T))

\* the arcs ARCS of the state which is not composed have one arc of the
\* cycle advancing, to the state of the masked shifted reservations
advance_cycle_arc_shifts(state, arcs) ==
  /\ Cardinality(advance_cycle_arcs(arcs)) = 1
  /\ states[state].component_states = <<>> =>
       \A k \in advance_cycle_arcs(arcs) :
         /\ states[arcs[k].to_state].component_states = <<>>
         /\ states[arcs[k].to_state].reservs
            = reserv_sets_and(reserv_sets_shift({}, states[state].reservs),
                              reservs_matter)

C35_OneAdvanceCycleArc ==
  /\ pc = "NDFA_to_DFA" =>
       \A state \in ndfa_achieved_states({start_state}) :
         advance_cycle_arc_shifts(state, ndfa_arcs[state])
  /\ BuilderFinished =>
       \A state \in Range(pass_states(heap, start_state)) :
         advance_cycle_arc_shifts(state, states[state].first_out_arc)
  /\ AutomatonBuilt =>
       \A state \in Range(pass_states(heap, start_state)) :
         Cardinality(advance_cycle_arcs(states[state].first_out_arc)) = 1

\* under -ndfa minimize_DFA has merged states of an automaton where the
\* mask has cleared a shifted reservation
C35_Witness ==
  /\ Minimized
  /\ ndfa_flag
  /\ \E k \in 1..Len(equiv_classes) : Len(equiv_classes[k]) > 1
  /\ \E st \in 1..Len(states) :
       /\ states[st].component_states = <<>>
       /\ reserv_sets_shift({}, states[st].reservs) \ reservs_matter # {}

(***************************************************************************)
(* The checker on descriptions which declare automata.                     *)
(***************************************************************************)
AutomatonNames == <<"x", "y">>

\* declarations of automata: none, one, both, or one declared twice
AutomatonDeclPool ==
  { <<>>, <<gen_automaton("x")>>, <<gen_automaton("y")>>,
    <<gen_automaton("x"), gen_automaton("y")>>,
    <<gen_automaton("x"), gen_automaton("x")>> }

ExclDeclPool ==
  << gen_excl_set(<<"a">>, <<"b">>), gen_excl_set(<<"b">>, <<"c">>),
     gen_excl_set(<<"a">>, <<"b", "c">>), gen_excl_set(<<"c">>, <<"c">>) >>

\* units a, b and c, each of them reserved by one instruction
AutomatonDescriptions ==
  { ads
    \o SeqOf([i \in 1..3 |->
         [gen_cpu_unit(UnitNames[i], FALSE) EXCEPT !.automaton_name = an[i]]])
    \o SeqOf([i \in 1..Len(es) |-> ExclDeclPool[es[i]]])
    \o SeqOf([i \in 1..3 |-> gen_insn_reserv(InsnNames[i], Unit(UnitNames[i]))]) :
      ads \in AutomatonDeclPool,
      an \in [1..3 -> {NoAutomatonName} \cup Range(AutomatonNames)],
      es \in StrictIndexLists(Len(ExclDeclPool), 0, 2) }

CheckerInit ==
  /\ \E decls \in AutomatonDescriptions :
       description =
         [decls |-> decls, units_num |-> 0, insns_num |-> 0,
          max_insn_reserv_cycles |-> 0, query_units_num |-> 0]
  /\ ndfa_flag = FALSE
  /\ w_flag \in BOOLEAN
  /\ transformed_insns_num = 0
  /\ regexp_transformed_p = FALSE
  /\ no_minimization_flag \in BOOLEAN
  /\ pc = "check_all_description"
  /\ units_array = <<>>
  /\ insn_decls = <<>>
  /\ reserv_decls = <<>>
  /\ reported_cycles = {}
  /\ have_error = FALSE
  /\ max_cycles_num = 0
  /\ states = <<>>
  /\ free_states = <<>>
  /\ got_free_states = <<>>
  /\ state_table = {}
  /\ ainsn_list = <<>>
  /\ start_state = NULL
  /\ state_stack = <<>>
  /\ reservs_matter = {}
  /\ tried = {}
  /\ ndfa_arcs = <<>>
  /\ dfa_start = NULL
  /\ dfa_arcs = <<>>
  /\ equiv_classes = <<>>
  /\ next_iteration_classes = <<>>
  /\ new_equiv_class_num = 0
  /\ odd_iteration_flag = FALSE
  /\ achieved_states_num = 0
  /\ insn_equiv_classes_num = 0
  /\ trans_table = NoTable
  /\ state_alts_table = NoTable
  /\ output_states_vect = <<>>
  /\ max_dfa_issue_rate = 0
  /\ min_issue_delay_vect = <<>>
  /\ max_min_delay = 0
  /\ min_issue_delay_table_compression_factor = 0
  /\ compressed_min_issue_delay_vect = <<>>
  /\ reserved_units_table = <<>>


CheckerSpec == CheckerInit /\ [][check_all_description]_vars

\* C36: in every description the checker accepts the exclusion relation of
\* the units is symmetric, no unit excludes itself, and two units which
\* exclude each other are declared in the same automaton
C36_ExclusionSymmetricInOneAutomaton ==
  DescriptionAccepted =>
    \A i, j \in 1..Len(units_array) :
       /\ (j \in Range(units_array[i].excl_list)
             <=> i \in Range(units_array[j].excl_list))
       /\ i \notin Range(units_array[i].excl_list)
       /\ j \in Range(units_array[i].excl_list)
            => units_array[i].automaton_name = units_array[j].automaton_name

\* an accepted description with units in two automata and an exclusion
C36_Witness ==
  /\ DescriptionAccepted
  /\ \E i, j, k \in 1..Len(units_array) :
       /\ j \in Range(units_array[i].excl_list)
       /\ units_array[i].automaton_name # NoAutomatonName
       /\ units_array[k].automaton_name # NoAutomatonName
       /\ units_array[k].automaton_name # units_array[i].automaton_name

\* the cycles at which some instruction reserves a unit
reserved_cycles ==
  UNION {UNION {{b[1] : b \in f.reservs} :
                  f \in footprints(insn_decls[i].regexp, 0)} :
           i \in 1..Len(insn_decls)}

\* C37: for every accepted description max_insn_reserv_cycles is one plus
\* the largest cycle at which an instruction's reservation reserves a unit
C37_MaxInsnReservCyclesIsLastReservedCycle ==
  DescriptionAccepted /\ pc = "transform_insn_regexps" /\ reserved_cycles # {}
    => description.max_insn_reserv_cycles = MaxOf(reserved_cycles) + 1


\* the cycles which the reservation of some instruction takes, with the
\* cycles in which it reserves nothing
reservation_cycles ==
  UNION {{f.finish_cycle : f \in footprints(insn_decls[i].regexp, 0)} :
           i \in 1..Len(insn_decls)}

\* C37 (amended): for every accepted description max_insn_reserv_cycles is
\* one plus the largest cycle of the reservation of an instruction, a cycle
\* which reserves no unit (nothing) being counted too
C37_MaxInsnReservCyclesIsLastCycle ==
  DescriptionAccepted /\ pc = "transform_insn_regexps"
    => description.max_insn_reserv_cycles = MaxOf(reservation_cycles) + 1

\* an accepted description whose longest reservation ends with nothing
C37_Witness ==
  /\ DescriptionAccepted /\ pc = "transform_insn_regexps"
  /\ reserved_cycles # {}
  /\ MaxOf(reserved_cycles) < MaxOf(reservation_cycles)


RECURSIVE allof_with_operand_outside(_, _)
allof_with_operand_outside(regexp, modes) ==
  \/ /\ regexp.mode = "allof"
     /\ \E i \in 1..Len(regexp.regexps) : regexp.regexps[i].mode \notin modes
  \/ \E i \in 1..Len(regexp.regexps) :
        allof_with_operand_outside(regexp.regexps[i], modes)

\* C39: after the transformer no `+' node of the transformed reservation of
\* an instruction has a sequence as operand: the operands of every `+' are
\* units and nothing
C39_AllofOfUnitsAndNothing ==
  RegexpsTransformed =>
    \A i \in 1..Len(insn_decls) :
       ~allof_with_operand_outside(insn_decls[i].transformed_regexp,
                                   {"unit", "nothing"})

\* an instruction with a sequence below a `+', whose transformed reservation
\* has a `+'
C39_Witness ==
  /\ RegexpsTransformed
  /\ \E i \in 1..Len(insn_decls) :
        /\ allof_with_operand_outside(
             copy_insn_regexp(reserv_decls, insn_decls[i].regexp),
             {"unit", "nothing", "oneof", "allof", "repeat"})
        /\ has_node_of_mode(insn_decls[i].transformed_regexp, {"allof"})

(***************************************************************************)
(* transform_insn_regexps pass by pass: the reservation under              *)
(* transformation is kept in transformed_regexp of its instruction.        *)
(***************************************************************************)
\* transform_regexp is called for the next instruction and applies
\* transform_1
transform_regexp_start ==
  /\ pc = "transform_insn_regexps"
  /\ transformed_insns_num < Len(insn_decls)
  /\ insn_decls' =
       [insn_decls EXCEPT ![transformed_insns_num + 1].transformed_regexp =
          regexp_transform_func(
            copy_insn_regexp(reserv_decls,
                             insn_decls[transformed_insns_num + 1].regexp),
            1).regexp]
  /\ pc' = "transform_regexp"
  /\ UNCHANGED <<description, units_array, have_error, ndfa_flag,
                 no_minimization_flag, max_cycles_num, states, free_states,
                 state_table, ainsn_list, start_state, state_stack,
                 reservs_matter, tried, ndfa_arcs, dfa_start, dfa_arcs,
                 equiv_classes, next_iteration_classes, new_equiv_class_num,
                 odd_iteration_flag, achieved_states_num,
                 insn_equiv_classes_num, trans_table, state_alts_table,
                 output_states_vect, max_dfa_issue_rate,
                 min_issue_delay_vect, reserved_units_table, reserv_decls,
                 reported_cycles, got_free_states, w_flag,
                 transformed_insns_num, regexp_transformed_p,
                 max_min_delay, min_issue_delay_table_compression_factor,
                 compressed_min_issue_delay_vect>>

\* the body of the loop of transform_regexp: transform_2, then transform_3
transform_regexp_pass ==
  /\ pc = "transform_regexp"
  /\ \E r2 \in {regexp_transform_func(
                  insn_decls[transformed_insns_num + 1].transformed_regexp,
                  2)} :
     \E r3 \in {regexp_transform_func(r2.regexp, 3)} :
        /\ insn_decls' =
             [insn_decls EXCEPT
                ![transformed_insns_num + 1].transformed_regexp = r3.regexp]
        /\ regexp_transformed_p' = (r2.transformed_p \/ r3.transformed_p)
  /\ pc' = "transform_regexp_while"
  /\ UNCHANGED <<description, units_array, have_error, ndfa_flag,
                 no_minimization_flag, max_cycles_num, states, free_states,
                 state_table, ainsn_list, start_state, state_stack,
                 reservs_matter, tried, ndfa_arcs, dfa_start, dfa_arcs,
                 equiv_classes, next_iteration_classes, new_equiv_class_num,
                 odd_iteration_flag, achieved_states_num,
                 insn_equiv_classes_num, trans_table, state_alts_table,
                 output_states_vect, max_dfa_issue_rate,
                 min_issue_delay_vect, reserved_units_table, reserv_decls,
                 reported_cycles, got_free_states, w_flag,
                 transformed_insns_num,
                 max_min_delay, min_issue_delay_table_compression_factor,
                 compressed_min_issue_delay_vect>>

\* the test of the loop of transform_regexp: the loop is left after a pass
\* which changed nothing
transform_regexp_while ==
  /\ pc = "transform_regexp_while"
  /\ transformed_insns_num' =
       IF regexp_transformed_p THEN transformed_insns_num
       ELSE transformed_insns_num + 1
  /\ pc' = IF regexp_transformed_p THEN "transform_regexp"
           ELSE "transform_insn_regexps"
  /\ UNCHANGED <<description, units_array, have_error, ndfa_flag,
                 no_minimization_flag, max_cycles_num, states, free_states,
                 state_table, ainsn_list, start_state, state_stack,
                 reservs_matter, tried, ndfa_arcs, dfa_start, dfa_arcs,
                 equiv_classes, next_iteration_classes, new_equiv_class_num,
                 odd_iteration_flag, achieved_states_num,
                 insn_equiv_classes_num, trans_table, state_alts_table,
                 output_states_vect, max_dfa_issue_rate,
                 min_issue_delay_vect, reserved_units_table, reserv_decls,
                 reported_cycles, got_free_states, w_flag,
                 insn_decls, regexp_transformed_p,
                 max_min_delay, min_issue_delay_table_compression_factor,
                 compressed_min_issue_delay_vect>>

\* every reservation is transformed; the advance cycle instruction, which
\* is added before the loop and which the loop passes over, is added here
transform_insn_regexps_end ==
  /\ pc = "transform_insn_regexps"
  /\ transformed_insns_num = Len(insn_decls)
  /\ insn_decls' = add_advance_cycle_insn_decl(insn_decls)
  /\ description' = [description EXCEPT !.insns_num = @ + 1]
  /\ pc' = "generate"
  /\ UNCHANGED <<units_array, have_error, ndfa_flag,
                 no_minimization_flag, max_cycles_num, states, free_states,
                 state_table, ainsn_list, start_state, state_stack,
                 reservs_matter, tried, ndfa_arcs, dfa_start, dfa_arcs,
                 equiv_classes, next_iteration_classes, new_equiv_class_num,
                 odd_iteration_flag, achieved_states_num,
                 insn_equiv_classes_num, trans_table, state_alts_table,
                 output_states_vect, max_dfa_issue_rate,
                 min_issue_delay_vect, reserved_units_table, reserv_decls,
                 reported_cycles, got_free_states, w_flag,
                 transformed_insns_num, regexp_transformed_p,
                 max_min_delay, min_issue_delay_table_compression_factor,
                 compressed_min_issue_delay_vect>>

\* the program runs on: inside the loop of transform_regexp the control
\* does not stay where it is for ever
TransformSpec ==
  /\ Init
  /\ [][check_all_description \/ transform_regexp_start
          \/ transform_regexp_pass \/ transform_regexp_while
          \/ transform_insn_regexps_end]_vars
  /\ WF_pc(/\ pc \in {"transform_regexp", "transform_regexp_while"}
           /\ pc' \in {"transform_regexp", "transform_regexp_while",
                       "transform_insn_regexps"})

\* C40: the loop of transform_regexp which repeats transform_2 and
\* transform_3 reaches a pass which changes nothing, and is left, after
\* finitely many passes
C40_TransformLoopReachesFixedPoint ==
  (pc = "transform_regexp")
    ~> (pc = "transform_insn_regexps" /\ ~regexp_transformed_p)

\* a pass changed the reservation and the next pass changes it again
C40_Witness ==
  /\ pc = "transform_regexp" /\ regexp_transformed_p
  /\ transform_regexp_once(
       insn_decls[transformed_insns_num + 1].transformed_regexp)
       # insn_decls[transformed_insns_num + 1].transformed_regexp
====
